---- MODULE Spec2Model ----
(***************************************************************************)
(* A model of the binary B+tree engine of AceBase (btree.js): the on-disk  *)
(* byte layout, the reader (_getReader, _readChild, _getNode, _getLeaf),   *)
(* the layout builder (createNode, createLeaf), the free-space allocator,  *)
(* the mutator (add, remove, update, transaction, _rebuildLeaf,            *)
(* _splitLeaf), the ext_data sideband and the TX engine.                   *)
(*                                                                         *)
(* The data source is the in-memory byte array of the constructor          *)
(* (readFn instanceof Array): `disk` is that array. JS index i is          *)
(* position i+1 of the TLA+ sequence.  A hole of the array (JS undefined)  *)
(* is the byte value Undef.                                                *)
(***************************************************************************)
EXTENDS Integers, Sequences, FiniteSets, TLC

\* ---------------------------------------------------------------------
\* Program constants
\* ---------------------------------------------------------------------
KEY_TYPE_UNDEFINED == 0
KEY_TYPE_STRING == 1
KEY_TYPE_NUMBER == 2
KEY_TYPE_BOOLEAN == 3
KEY_TYPE_DATE == 4

FLAG_UNIQUE_KEYS == 1
FLAG_HAS_METADATA == 2
FLAG_HAS_FREE_SPACE == 4
FLAG_HAS_FILL_FACTOR == 8
FLAG_HAS_SMALL_LEAFS == 16
FLAG_HAS_LARGE_PTRS == 32
FLAG_ENTRY_HAS_EXT_DATA == 128
FLAG_IS_LEAF == 1
FLAG_LEAF_HAS_EXT_DATA == 2

MAX_SMALL_LEAF_VALUE_LENGTH == 127

\* header bytes of a node or leaf record: byte_length, flags, free_byte_length
RecordHeaderLength == 9
\* header bytes of an ext_data block as the binary tree reads and writes it
ExtBlockHeaderLength == 8

\* ---------------------------------------------------------------------
\* Bytes and numbers
\* ---------------------------------------------------------------------
\* A hole of a JS array: reading it gives undefined.
Undef == -1

\* JS ToInt32 of a byte read for a bit operation: undefined becomes 0.
Num(b) == IF b = Undef THEN 0 ELSE b

Max(a, b) == IF a >= b THEN a ELSE b
Min(a, b) == IF a <= b THEN a ELSE b

\* bytes[i] of a JS array held as a TLA+ sequence
At(bytes, i) == IF i >= 0 /\ i < Len(bytes) THEN bytes[i + 1] ELSE Undef

\* bytes.slice(from, to)
Slice(bytes, from, to) ==
    LET f == Max(0, Min(from, Len(bytes)))
        t == Max(f, Min(to, Len(bytes)))
    IN
        [i \in 1..(t - f) |-> bytes[f + i]]

Zeroes(n) == [i \in 1..Max(n, 0) |-> 0]

\* bit test on small flag bytes: (b & mask) > 0 for a one-bit mask
HasBit(b, mask) == (Num(b) \div mask) % 2 = 1

\* b | mask and b & ~mask for a one-bit mask
SetBit(b, mask) == IF HasBit(b, mask) THEN b ELSE b + mask
ClearBit(b, mask) == IF HasBit(b, mask) THEN b - mask ELSE b

\* Math.ceil(a / b) for naturals
CeilDiv(a, b) == (a + b - 1) \div b

\* The multiples of ten below 1000 whose IEEE-754 product with 1.1 lies
\* above the exact product, so that Math.ceil gives one more.
FloatUp11 ==
    {50, 90, 100, 110, 170, 180, 190, 200, 210, 220, 230}
    \cup {x \in 330..460 : x % 10 = 0}
    \cup {x \in 650..930 : x % 10 = 0}

\* Math.ceil(x * 1.1) in IEEE-754 doubles, for 0 <= x < 1000
CeilTimes11(x) == CeilDiv(11 * x, 10) + (IF x \in FloatUp11 THEN 1 ELSE 0)

\* Math.ceil(x * 0.1) in IEEE-754 doubles (exact for 0 <= x < 3000)
CeilTimes01(x) == CeilDiv(x, 10)

\* bytes.readInt32BE-like: the signed 32-bit value of four big-endian bytes
_readByteLength(bytes, index) ==
    LET b0 == Num(At(bytes, index))
    IN
        (IF b0 >= 128 THEN b0 - 256 ELSE b0) * 16777216
        + Num(At(bytes, index + 1)) * 65536
        + Num(At(bytes, index + 2)) * 256 + Num(At(bytes, index + 3))

\* the four bytes _writeByteLength stores (two's complement of a 32-bit length)
_writeByteLength(length) ==
    << (length \div 16777216) % 256, (length \div 65536) % 256,
       (length \div 256) % 256, length % 256 >>

\* an offset of 2^30 bytes stands for every offset of that size or more:
\* all of them point outside any byte array of the model
FarOffset == 1073741824

\* the six bytes _writeSignedOffset(bytes, index, offset, true) stores, for
\* offsets below 2^31 (the two high bytes hold the bits from 2^32 up)
_writeSignedOffset(offset) ==
    LET n == IF offset < 0 THEN -offset ELSE offset
    IN
        << IF offset < 0 THEN 128 ELSE 0, 0,
           (n \div 16777216) % 256, (n \div 65536) % 256, (n \div 256) % 256, n % 256 >>

_readSignedOffset(bytes, index) ==
    LET isNegative == HasBit(At(bytes, index), 128)
        b0 == IF isNegative THEN Num(At(bytes, index)) - 128 ELSE Num(At(bytes, index))
        far == b0 # 0 \/ Num(At(bytes, index + 1)) # 0 \/ Num(At(bytes, index + 2)) >= 64
        n == IF far THEN FarOffset
             ELSE Num(At(bytes, index + 2)) * 16777216 + Num(At(bytes, index + 3)) * 65536
                  + Num(At(bytes, index + 4)) * 256 + Num(At(bytes, index + 5))
    IN
        IF isNegative THEN -n ELSE n

\* ---------------------------------------------------------------------
\* Keys.  A key is <<type>> \o data: <<0>> is undefined, <<1, c1, .., cn>>
\* the string with char codes c1..cn, <<3, b>> a boolean.
\* ---------------------------------------------------------------------
KUndefined == << KEY_TYPE_UNDEFINED >>

KeyType(key) == key[1]
KeyData(key) == Tail(key)

\* JS string comparison a < b: by code unit, a proper prefix is smaller
RECURSIVE SeqLess(_, _)
SeqLess(a, b) ==
    IF b = << >> THEN FALSE
    ELSE IF a = << >> THEN TRUE
    ELSE IF Head(a) # Head(b) THEN Head(a) < Head(b)
    ELSE SeqLess(Tail(a), Tail(b))

\* typeof of the comparable value: 'boolean' < 'string' as strings
TypeRank(key) == IF KeyType(key) = KEY_TYPE_BOOLEAN THEN 1 ELSE 2

IsNull(key) == KeyType(key) = KEY_TYPE_UNDEFINED

_isEqual(val1, val2) ==
    IF IsNull(val1) \/ IsNull(val2) THEN IsNull(val1) /\ IsNull(val2)
    ELSE val1 = val2

_isLess(val1, val2) ==
    IF IsNull(val2) THEN FALSE
    ELSE IF IsNull(val1) THEN TRUE
    ELSE IF TypeRank(val1) # TypeRank(val2) THEN TypeRank(val1) < TypeRank(val2)
    ELSE SeqLess(KeyData(val1), KeyData(val2))

_isMore(val1, val2) ==
    IF IsNull(val1) THEN FALSE
    ELSE IF IsNull(val2) THEN TRUE
    ELSE IF TypeRank(val1) # TypeRank(val2) THEN TypeRank(val1) > TypeRank(val2)
    ELSE SeqLess(KeyData(val2), KeyData(val1))

\* An index that became NaN: every read at it gives undefined, and it
\* stays so under the additions the parsers make.
NaN == -1000000

\* BinaryBPlusTreeBuilder.getKeyBytes: key_type, key_length, key_data
getKeyBytes(key) ==
    IF IsNull(key) THEN << KEY_TYPE_UNDEFINED, 0 >>
    ELSE << KeyType(key), Len(KeyData(key)) >> \o KeyData(key)

\* BPlusTree.getKeyFromBinary: the key at bytes[index..]; `known` is FALSE
\* for a key type the decoder throws on, or a number/date (not modelled).
getKeyFromBinary(bytes, index) ==
    LET keyType == At(bytes, index)
        keyLength == Num(At(bytes, index + 1))
        keyData == Slice(bytes, index + 2, index + 2 + keyLength)
    IN
        [ key |-> IF keyType = KEY_TYPE_STRING THEN << KEY_TYPE_STRING >> \o keyData
                  ELSE IF keyType = KEY_TYPE_BOOLEAN
                       THEN << KEY_TYPE_BOOLEAN, IF At(keyData, 0) = 1 THEN 1 ELSE 0 >>
                  ELSE KUndefined,
          known |-> keyType \in {KEY_TYPE_UNDEFINED, KEY_TYPE_STRING, KEY_TYPE_BOOLEAN},
          byteLength |-> IF At(bytes, index + 1) = Undef THEN NaN ELSE keyLength + 2 ]

\* ---------------------------------------------------------------------
\* BinaryBPlusTreeBuilder: getHeader, createNode, createLeaf.
\* The trees of this model have no metadata keys, small leafs and large
\* pointers, as every tree written by BinaryBPlusTree.create has.
\* ---------------------------------------------------------------------
NoError == "ok"

\* the value nextIndex takes for 'adjacent'
Adjacent == -1

\* BinaryBPlusTreeBuilder.getHeader
getHeader(uniqueKeys, maxEntriesPerNode, fillFactor, byteLength, freeBytes) ==
    LET hasFill == fillFactor > 0 /\ fillFactor <= 100
        indexTypeFlags == (IF uniqueKeys THEN FLAG_UNIQUE_KEYS ELSE 0)
                          + (IF freeBytes > 0 THEN FLAG_HAS_FREE_SPACE ELSE 0)
                          + (IF hasFill THEN FLAG_HAS_FILL_FACTOR ELSE 0)
                          + FLAG_HAS_SMALL_LEAFS + FLAG_HAS_LARGE_PTRS
    IN
        _writeByteLength(byteLength) \o << indexTypeFlags, maxEntriesPerNode >>
        \o (IF hasFill THEN << fillFactor >> ELSE << >>)
        \o (IF freeBytes > 0 THEN _writeByteLength(freeBytes) ELSE << >>)

\* the entries of createNode: key bytes and lt_child_ptr of each entry.
\* `at` is bytes.length before the entry, nodeIndex is info.index.
RECURSIVE NodeEntryBytes(_, _, _, _)
NodeEntryBytes(entries, nodeIndex, gtIndex, at) ==
    IF entries = << >>
    THEN \* gt_child_ptr
         _writeSignedOffset(IF gtIndex = 0 THEN 0 ELSE gtIndex - 5 - (nodeIndex + at))
    ELSE getKeyBytes(Head(entries).key)
         \o _writeSignedOffset(
                IF Head(entries).ltIndex = 0 THEN 0
                ELSE Head(entries).ltIndex - 5
                     - (nodeIndex + at + Len(getKeyBytes(Head(entries).key))))
         \o NodeEntryBytes(Tail(entries), nodeIndex, gtIndex,
                           at + Len(getKeyBytes(Head(entries).key)) + 6)

\* the end of createNode: the free space added behind the bytes of the
\* entries, byte_length and free_byte_length set
addFreeSpace(bytes, entriesLength, maxEntriesPerNode, maxLength) ==
    LET used == Len(bytes)
        freeEntries == maxEntriesPerNode - entriesLength
        avgEntrySize == CeilDiv(used - 14, entriesLength)
        freeSpace == IF maxLength > 0 THEN maxLength - used
                     ELSE CeilTimes11(freeEntries * avgEntrySize)
        byteLength == IF maxLength > 0 THEN maxLength ELSE used + freeSpace
    IN
        IF maxLength > 0 /\ used > maxLength
        THEN [ err |-> "Node byte size grew above maximum", bytes |-> << >>,
               writes |-> << >>, pointers |-> << >> ]
        ELSE IF maxLength = 0 /\ entriesLength = 0
        THEN \* avgEntrySize and freeSpace are Infinity: the loop that pushes
             \* the zero bytes has no end
             [ err |-> "never settles", bytes |-> << >>, writes |-> << >>,
               pointers |-> << >> ]
        ELSE [ err |-> NoError,
               bytes |-> _writeByteLength(byteLength) \o << 0 >>
                         \o _writeByteLength(freeSpace)
                         \o Slice(bytes, 9, used) \o Zeroes(freeSpace),
               writes |-> << >>, pointers |-> << >> ]

\* BinaryBPlusTreeBuilder.createNode(info, { addFreeSpace: true, maxLength })
\* info = [index, gtIndex, entries: Seq([key, ltIndex])]
createNode(maxEntriesPerNode, info, maxLength) ==
    addFreeSpace(Zeroes(9) \o << Len(info.entries) >>
                 \o NodeEntryBytes(info.entries, info.index, info.gtIndex, 10),
                 Len(info.entries), maxEntriesPerNode, maxLength)

\* getLeafEntryValueBytes: value_length, value_data
getLeafEntryValueBytes(recordPointer) == << Len(recordPointer) >> \o recordPointer

RECURSIVE ValuesBytes(_)
ValuesBytes(values) ==
    IF values = << >> THEN << >>
    ELSE getLeafEntryValueBytes(Head(values)) \o ValuesBytes(Tail(values))

\* bytes with bytes[index..] overwritten by data (a JS array write: the
\* array grows, leaving holes, when the write lies beyond its end)
Patch(bytes, data, index) ==
    [i \in 1..Max(Len(bytes), index + Len(data)) |->
        IF i > index /\ i <= index + Len(data) THEN data[i - index]
        ELSE IF i <= Len(bytes) THEN bytes[i] ELSE Undef]

\* index of ext_byte_length in the bytes createLeaf assembles
ExtDataHeaderIndex == 21

\* A leaf entry held in memory:
\*   key, values (record pointers), and for an entry read with the
\*   ENTRY_HAS_EXT_DATA flag (ext = TRUE) its extData: loaded, totalValues,
\*   leafOffset, _listLengthIndex, index, _length and _freeBytes (-1 until
\*   the header of the block is loaded).
NewLeafEntry(key, values) ==
    [ key |-> key, values |-> values, ext |-> FALSE, loaded |-> FALSE,
      totalValues |-> 0, leafOffset |-> 0, listLengthIndex |-> 0, extIndex |-> 0,
      blockLength |-> -1, blockFree |-> -1 ]

\* the addExtData callback of _writeLeaf: writes a new ext_data block into
\* the free bytes of the leaf's ext_data region, at once
addExtData(acc, pointerIndex, data, extLength, extBase) ==
    LET extIndex == extLength - acc.extFree
        minRequired == Len(data) + 8
        maxFree == acc.extFree - minRequired
        free == Min(maxFree, CeilTimes01(Len(data)))
        block == _writeByteLength(Len(data) + free) \o _writeByteLength(free)
                 \o data \o Zeroes(free)
    IN
        IF acc.extFree < minRequired
        THEN [acc EXCEPT !.err = "Not enough free space in ext_data"]
        ELSE [acc EXCEPT !.extFree = @ - Len(block),
                         !.writes = Append(@, [index |-> extBase + extIndex, bytes |-> block]),
                         !.pointers = Append(@, [pointerIndex |-> pointerIndex,
                                                 targetIndex |-> extIndex])]

\* one round of the entries loop of createLeaf
createLeafEntry(acc, entry, uniqueKeys, hasExtData, info, options) ==
    LET keyed == acc.bytes \o getKeyBytes(entry.key)
        valueBytes == IF uniqueKeys THEN getLeafEntryValueBytes(entry.values[1])
                      ELSE ValuesBytes(entry.values)
        extPointerIndex == Len(keyed) + 5
        withPtr == [acc EXCEPT !.bytes = keyed \o << FLAG_ENTRY_HAS_EXT_DATA >>
                                  \o _writeByteLength(Len(entry.values)) \o Zeroes(4)]
    IN
        IF acc.err # NoError THEN acc
        ELSE IF hasExtData /\ info.extRebuild /\ entry.ext /\ ~entry.loaded
        THEN [acc EXCEPT !.err = "extData cannot be rebuilt if an entry's extData isn't loaded"]
        ELSE IF hasExtData /\ entry.ext /\ ~info.extRebuild
        THEN [acc EXCEPT !.bytes = keyed \o << FLAG_ENTRY_HAS_EXT_DATA >>
                                   \o _writeByteLength(entry.totalValues)
                                   \o _writeByteLength(entry.leafOffset)]
        ELSE IF entry.ext /\ ~entry.loaded
        THEN [acc EXCEPT !.err = "ext_data values were not read yet"]
        ELSE IF uniqueKeys /\ entry.values = << >>
        THEN [acc EXCEPT !.err = "TypeError: entry has no value"]
        ELSE IF Len(valueBytes) > MAX_SMALL_LEAF_VALUE_LENGTH
        THEN IF hasExtData /\ ~info.extRebuild
             THEN IF options.canAddExtData
                  THEN addExtData(withPtr, extPointerIndex, valueBytes,
                                  info.extLength, options.extBase)
                  ELSE [acc EXCEPT !.err = "TypeError: addExtData is not a function"]
             ELSE [withPtr EXCEPT !.blocks = Append(@, [pointerIndex |-> extPointerIndex,
                                                        bytes |-> valueBytes])]
        ELSE [acc EXCEPT !.bytes = keyed \o << Len(valueBytes) >>
                                   \o _writeByteLength(Len(entry.values)) \o valueBytes]

RECURSIVE createLeafEntries(_, _, _, _, _, _)
createLeafEntries(acc, entries, uniqueKeys, hasExtData, info, options) ==
    IF entries = << >> THEN acc
    ELSE createLeafEntries(
            createLeafEntry(acc, Head(entries), uniqueKeys, hasExtData, info, options),
            Tail(entries), uniqueKeys, hasExtData, info, options)

\* appends the ext_data blocks kept in memory behind the leaf, setting each
\* entry's ext_data_ptr
RECURSIVE appendDataBlocks(_, _, _)
appendDataBlocks(bytes, blocks, leafEndIndex) ==
    IF blocks = << >> THEN bytes
    ELSE LET block == Head(blocks)
             offset == Len(bytes) - leafEndIndex
             free == CeilTimes01(Len(block.bytes))
             pointed == Patch(bytes, _writeByteLength(offset), block.pointerIndex)
         IN
             appendDataBlocks(
                pointed \o _writeByteLength(Len(block.bytes) + free)
                        \o _writeByteLength(free) \o block.bytes \o Zeroes(free),
                Tail(blocks), leafEndIndex)

RECURSIVE minExtLength(_)
minExtLength(blocks) ==
    IF blocks = << >> THEN 0
    ELSE 8 + CeilTimes11(Len(Head(blocks).bytes)) + minExtLength(Tail(blocks))

\* the end of createLeaf, once the ext_data blocks kept in memory are
\* appended behind the leaf bytes: the ext_data lengths and the flags set
createLeafExtData(info, acc, sized, leafBytes, withBlocks) ==
    LET hasBlocks == acc.blocks # << >>
        extByteLength == Len(withBlocks) - Len(leafBytes)
        extGrew == hasBlocks /\ sized.extRebuild /\ sized.extLength < extByteLength
        extFreeByteLength == IF sized.extRebuild THEN sized.extLength - extByteLength
                             ELSE CeilTimes01(extByteLength)
        extLength == IF hasBlocks /\ ~sized.hasExtInfo THEN extByteLength + extFreeByteLength
                     ELSE sized.extLength
        extFreeBytes == IF hasBlocks THEN extFreeByteLength ELSE acc.extFree
        allBytes == IF hasBlocks THEN withBlocks \o Zeroes(extFreeByteLength) ELSE leafBytes
        byteLength == IF hasBlocks THEN Len(withBlocks) + extFreeByteLength
                      ELSE IF sized.hasExtData THEN sized.leafLength + extLength
                      ELSE sized.leafLength
        flagged == IF sized.hasExtData
                   THEN Patch(Patch(Patch(allBytes,
                                << FLAG_IS_LEAF + FLAG_LEAF_HAS_EXT_DATA >>, 4),
                                _writeByteLength(extLength), ExtDataHeaderIndex),
                                _writeByteLength(extFreeBytes), ExtDataHeaderIndex + 4)
                   ELSE allBytes
        err == IF sized.err # NoError THEN sized.err
               ELSE IF extGrew THEN "leaf ext_data grew larger than the bytes available to it"
               ELSE NoError
    IN
        [ err |-> err,
          bytes |-> IF err # NoError THEN << >>
                    ELSE IF info.nextIndex = Adjacent
                    THEN Patch(flagged, _writeSignedOffset(byteLength - 15), 15)
                    ELSE flagged,
          writes |-> acc.writes,
          pointers |-> acc.pointers,
          extLength |-> IF err = NoError THEN extLength ELSE info.extLength,
          extFreeBytes |-> IF err = NoError THEN extFreeBytes ELSE acc.extFree ]

\* the leaf bytes of createLeaf with their free space, byte_length and
\* free_byte_length set
createLeafBytes(info, acc, sized, body) ==
    createLeafExtData(info, acc, sized,
        Patch(Patch(body \o Zeroes(sized.freeSpace), _writeByteLength(sized.freeSpace), 5),
              _writeByteLength(sized.leafLength), 0),
        appendDataBlocks(
            Patch(Patch(body \o Zeroes(sized.freeSpace), _writeByteLength(sized.freeSpace), 5),
                  _writeByteLength(sized.leafLength), 0),
            acc.blocks, sized.leafLength))

\* the lengths createLeaf decides on, the bytes of the entries being written
createLeafSizes(maxEntriesPerNode, info, options, acc, hasExtData0) ==
    LET hasBlocks == acc.blocks # << >>
        shrink == hasBlocks /\ ~hasExtData0 /\ options.maxLength > 0
        minExtDataLength == CeilTimes11(minExtLength(acc.blocks))
        noRoom == shrink /\ options.maxLength - Len(acc.bytes) < minExtDataLength
        maxLength == IF shrink THEN options.maxLength - minExtDataLength ELSE options.maxLength
        hasExtData == hasExtData0 \/ hasBlocks
        used == IF hasExtData THEN Len(acc.bytes) ELSE Len(acc.bytes) - 8
        freeEntries == maxEntriesPerNode - Len(info.entries)
        avgEntrySize == CeilDiv(used - 18, Len(info.entries))
        freeSpace == IF maxLength > 0 THEN maxLength - used
                     ELSE CeilTimes11(freeEntries * avgEntrySize)
    IN
        [ hasExtInfo |-> info.hasExtInfo \/ shrink,
          extRebuild |-> info.extRebuild /\ ~shrink,
          extLength |-> IF shrink THEN minExtDataLength ELSE info.extLength,
          hasExtData |-> hasExtData,
          freeSpace |-> freeSpace,
          leafLength |-> IF maxLength > 0 THEN maxLength ELSE used + freeSpace,
          err |-> IF acc.err # NoError THEN acc.err
                  ELSE IF noRoom
                  THEN "leaf needs rebuild: not enough free space to extend it with ext_data"
                  ELSE IF maxLength > 0 /\ used > maxLength
                  THEN "leaf byte size grew above maximum"
                  ELSE NoError ]

\* createLeaf, the entries written into acc
createLeafOf(maxEntriesPerNode, info, options, acc, hasExtData0) ==
    createLeafBytes(info, acc,
        createLeafSizes(maxEntriesPerNode, info, options, acc, hasExtData0),
        IF hasExtData0 \/ acc.blocks # << >> THEN acc.bytes
        ELSE Slice(acc.bytes, 0, ExtDataHeaderIndex)
             \o Slice(acc.bytes, ExtDataHeaderIndex + 8, Len(acc.bytes)))

\* BinaryBPlusTreeBuilder.createLeaf(info, { addFreeSpace: true, maxLength, addExtData })
\*   info = [index, prevIndex, nextIndex, entries, hasExtInfo, extLength,
\*           extFreeBytes, extRebuild]
\*   options = [maxLength, canAddExtData, extBase]
\* gives err, the bytes, the ext_data writes addExtData made, its pointers,
\* and info.extData as createLeaf leaves it.
createLeaf(uniqueKeys, maxEntriesPerNode, info, options) ==
    createLeafOf(maxEntriesPerNode, info, options,
        createLeafEntries(
            [ bytes |-> Zeroes(4)
                        \o << FLAG_IS_LEAF + (IF info.hasExtInfo /\ info.extLength > 0
                                              THEN FLAG_LEAF_HAS_EXT_DATA ELSE 0) >>
                        \o Zeroes(4)
                        \o _writeSignedOffset(IF info.prevIndex = 0 THEN 0
                                              ELSE info.prevIndex - (info.index + 9))
                        \o _writeSignedOffset(
                                IF info.nextIndex = 0 \/ info.nextIndex = Adjacent THEN 0
                                ELSE info.nextIndex - (info.index + 15))
                        \o Zeroes(8) \o << Len(info.entries) >>,
              blocks |-> << >>, writes |-> << >>, pointers |-> << >>,
              extFree |-> info.extFreeBytes, err |-> NoError ],
            info.entries, uniqueKeys, info.hasExtInfo /\ info.extLength > 0, info, options),
        info.hasExtInfo /\ info.extLength > 0)

\* ---------------------------------------------------------------------
\* The reader: _getReader, _readChild, _getNode, _getLeaf, findLeaf
\* ---------------------------------------------------------------------
\* _getReader: the tree info, read from the header on every operation
_getReader(data) ==
    LET flags == At(data, 4)
        hasFillFactor == HasBit(flags, FLAG_HAS_FILL_FACTOR)
        hasFreeSpace == HasBit(flags, FLAG_HAS_FREE_SPACE)
        freeSpaceIndex == IF hasFillFactor THEN 7 ELSE 6
    IN
        [ byteLength |-> _readByteLength(data, 0),
          isUnique |-> HasBit(flags, FLAG_UNIQUE_KEYS),
          hasFreeSpace |-> hasFreeSpace,
          hasFillFactor |-> hasFillFactor,
          hasLargePtrs |-> HasBit(flags, FLAG_HAS_LARGE_PTRS),
          freeSpace |-> IF hasFreeSpace THEN _readByteLength(data, freeSpaceIndex) ELSE 0,
          freeSpaceIndex |-> freeSpaceIndex,
          entriesPerNode |-> Num(At(data, 5)),
          fillFactor |-> IF hasFillFactor THEN Num(At(data, 6)) ELSE 100,
          headerLength |-> 6 + (IF hasFillFactor THEN 1 ELSE 0)
                             + (IF hasFreeSpace THEN 4 ELSE 0) ]

\* _readChild with the reader at `index`
_readChild(data, index) ==
    LET byteLength == _readByteLength(data, index)
        freeBytesLength == _readByteLength(data, index + 5)
    IN
        [ index |-> index,
          isLeaf |-> HasBit(At(data, index + 4), FLAG_IS_LEAF),
          hasExtData |-> HasBit(At(data, index + 4), FLAG_LEAF_HAS_EXT_DATA),
          bytes |-> Slice(data, index + 9, index + byteLength - freeBytesLength),
          length |-> byteLength,
          free |-> freeBytesLength ]

\* the entries loop of _getNode
RECURSIVE getNodeEntries(_, _, _, _, _)
getNodeEntries(nodeInfo, index, left, entries, keyInfo) ==
    IF left = 0
    THEN \* gt_child_ptr
         [ index |-> nodeInfo.index, length |-> nodeInfo.length, free |-> nodeInfo.free,
           entries |-> entries,
           gtChildIndex |-> nodeInfo.index + index + 9
                            + _readSignedOffset(nodeInfo.bytes, index) + 5,
           err |-> NoError ]
    ELSE IF ~keyInfo.known
    THEN [ index |-> nodeInfo.index, length |-> nodeInfo.length, free |-> nodeInfo.free,
           entries |-> entries, gtChildIndex |-> 0, err |-> "Unknown key type" ]
    ELSE getNodeEntries(nodeInfo, index + keyInfo.byteLength + 6, left - 1,
            Append(entries,
                [ key |-> keyInfo.key,
                  ltChildIndex |-> nodeInfo.index + index + keyInfo.byteLength + 9
                        + _readSignedOffset(nodeInfo.bytes, index + keyInfo.byteLength) + 5 ]),
            getKeyFromBinary(nodeInfo.bytes, index + keyInfo.byteLength + 6))

\* _getNode
_getNode(nodeInfo) ==
    getNodeEntries(nodeInfo, 1, Num(At(nodeInfo.bytes, 0)), << >>,
                   getKeyFromBinary(nodeInfo.bytes, 1))

\* readEntryValue: value_length, value_data
readEntryValue(bytes, index) ==
    LET valueLength == At(bytes, index)
    IN
        [ recordPointer |-> [j \in 1..Num(valueLength) |-> At(bytes, index + j)],
          byteLength |-> IF valueLength = Undef THEN NaN ELSE 1 + valueLength ]

RECURSIVE readValues(_, _, _)
readValues(bytes, index, count) ==
    IF count <= 0 THEN [ values |-> << >>, index |-> index ]
    ELSE LET v == readEntryValue(bytes, index)
             rest == readValues(bytes, index + v.byteLength, count - 1)
         IN
             [ values |-> << v.recordPointer >> \o rest.values, index |-> rest.index ]

\* no node: the parent of the root
NoNode == [ index |-> 0, length |-> 0, free |-> 0, entries |-> << >>,
            gtChildIndex |-> 0, err |-> NoError ]

\* the entries loop of _getLeaf (options.stats not set), and the leaf read
RECURSIVE getLeafEntries(_, _, _, _, _, _)
getLeafEntries(isUnique, leafInfo, index, left, entries, keyInfo) ==
    LET bytes == leafInfo.bytes
        valAt == index + keyInfo.byteLength
        hasExtData == HasBit(At(bytes, valAt), FLAG_ENTRY_HAS_EXT_DATA)
        single == readEntryValue(bytes, valAt + 1)
        valuesLength == _readByteLength(bytes, valAt + 1)
        extDataOffset == _readByteLength(bytes, valAt + 5)
        list == readValues(bytes, valAt + 5, valuesLength)
        Leaf(err) ==
            [ index |-> leafInfo.index, length |-> leafInfo.length, free |-> leafInfo.free,
              hasExtData |-> leafInfo.hasExtData,
              prevLeafOffset |-> _readSignedOffset(bytes, 0),
              nextLeafOffset |-> _readSignedOffset(bytes, 6),
              extLength |-> IF leafInfo.hasExtData THEN _readByteLength(bytes, 12) ELSE 0,
              extFreeBytes |-> IF leafInfo.hasExtData THEN _readByteLength(bytes, 16) ELSE 0,
              extLoaded |-> FALSE, entries |-> entries, err |-> err,
              hasTree |-> TRUE, hasParent |-> FALSE, parentNode |-> NoNode,
              parentEntry |-> 0 ]
    IN
        IF left = 0 THEN Leaf(NoError)
        ELSE IF ~keyInfo.known THEN Leaf("Unknown key type")
        ELSE IF isUnique
        THEN getLeafEntries(isUnique, leafInfo, valAt + 1 + single.byteLength, left - 1,
                Append(entries, NewLeafEntry(keyInfo.key, << single.recordPointer >>)),
                getKeyFromBinary(bytes, valAt + 1 + single.byteLength))
        ELSE IF hasExtData
        THEN getLeafEntries(isUnique, leafInfo, valAt + 9, left - 1,
                Append(entries,
                    [ key |-> keyInfo.key, values |-> << >>, ext |-> TRUE,
                      loaded |-> FALSE, totalValues |-> valuesLength,
                      leafOffset |-> extDataOffset,
                      listLengthIndex |-> leafInfo.index + 9 + valAt + 1,
                      extIndex |-> leafInfo.index + leafInfo.length + extDataOffset,
                      blockLength |-> -1, blockFree |-> -1 ]),
                getKeyFromBinary(bytes, valAt + 9))
        ELSE getLeafEntries(isUnique, leafInfo, list.index, left - 1,
                Append(entries, NewLeafEntry(keyInfo.key, list.values)),
                getKeyFromBinary(bytes, list.index))

\* _getLeaf
_getLeaf(info, leafInfo) ==
    getLeafEntries(info.isUnique, leafInfo, (IF leafInfo.hasExtData THEN 20 ELSE 12) + 1,
                   Num(At(leafInfo.bytes, IF leafInfo.hasExtData THEN 20 ELSE 12)), << >>,
                   getKeyFromBinary(leafInfo.bytes,
                                    (IF leafInfo.hasExtData THEN 20 ELSE 12) + 1))

\* BinaryBPlusTreeLeaf.prevLeafIndex and nextLeafIndex (getters)
prevLeafIndex(leaf) ==
    IF leaf.prevLeafOffset # 0 THEN leaf.index + 9 + leaf.prevLeafOffset ELSE 0
nextLeafIndex(leaf) ==
    IF leaf.nextLeafOffset # 0 THEN leaf.index + 15 + leaf.nextLeafOffset ELSE 0

\* the offsets the setters of prevLeafIndex and nextLeafIndex store
prevLeafOffsetFor(leafIndex, newIndex) == IF newIndex > 0 THEN newIndex - leafIndex - 9 ELSE 0
nextLeafOffsetFor(leafIndex, newIndex) == IF newIndex > 0 THEN newIndex - leafIndex - 15 ELSE 0

\* the longest root-to-leaf descent followed; a longer one can only be a
\* cycle of child pointers, on which findLeaf never settles
MaxDescent == 4

\* a leaf that could not be read
FailedLeaf(err) ==
    [ index |-> 0, length |-> 0, free |-> 0, hasExtData |-> FALSE,
      prevLeafOffset |-> 0, nextLeafOffset |-> 0, extLength |-> 0, extFreeBytes |-> 0,
      extLoaded |-> FALSE, entries |-> << >>, err |-> err, hasTree |-> TRUE,
      hasParent |-> FALSE, parentNode |-> NoNode, parentEntry |-> 0 ]

\* index of the first node entry with searchKey < entry.key, 0 if none
RECURSIVE FindLtEntry(_, _, _)
FindLtEntry(entries, searchKey, i) ==
    IF i > Len(entries) THEN 0
    ELSE IF _isLess(searchKey, entries[i].key) THEN i
    ELSE FindLtEntry(entries, searchKey, i + 1)

RECURSIVE processChild(_, _, _, _, _, _, _, _)
\* the descent from a node read by _getNode into the child searchKey lies in
processNode(data, info, searchKey, node, target, fuel) ==
    IF node.err # NoError THEN FailedLeaf(node.err)
    ELSE IF node.entries = << >> THEN FailedLeaf("read node has no entries!")
    ELSE processChild(data, info, searchKey,
            _readChild(data, IF target > 0 THEN node.entries[target].ltChildIndex
                             ELSE node.gtChildIndex),
            TRUE, node, target, fuel - 1)

\* processChild of findLeaf.  parentEntry is the position of the parent
\* entry in parentNode.entries, 0 for the gt child (parentEntry === null).
processChild(data, info, searchKey, nodeInfo, hasParent, parentNode, parentEntry, fuel) ==
    IF nodeInfo.isLeaf
    THEN [_getLeaf(info, nodeInfo) EXCEPT !.hasParent = hasParent,
                                          !.parentNode = parentNode,
                                          !.parentEntry = parentEntry]
    ELSE IF fuel = 0 THEN FailedLeaf("never settles")
    ELSE processNode(data, info, searchKey, _getNode(nodeInfo),
                     FindLtEntry(_getNode(nodeInfo).entries, searchKey, 1), fuel)

\* BinaryBPlusTree.findLeaf(searchKey)
findLeaf(data, searchKey) ==
    processChild(data, _getReader(data), searchKey,
                 _readChild(data, _getReader(data).headerLength),
                 FALSE, NoNode, 0, MaxDescent)

\* leaf.findEntryIndex(key), 0 if there is none
RECURSIVE findEntryIndexFrom(_, _, _)
findEntryIndexFrom(entries, key, i) ==
    IF i > Len(entries) THEN 0
    ELSE IF _isEqual(entries[i].key, key) THEN i
    ELSE findEntryIndexFrom(entries, key, i + 1)

findEntryIndex(entries, key) == findEntryIndexFrom(entries, key, 1)

\* entry.extData.loadHeader: _length and _freeBytes of an ext_data block
loadHeader(data, entry) ==
    [ length |-> _readByteLength(data, entry.extIndex),
      freeBytes |-> _readByteLength(data, entry.extIndex + 4) ]

\* entry.extData.loadValues: the values decoded from the block
loadValues(data, entry) ==
    readValues(Slice(data, entry.extIndex + 8,
                     entry.extIndex + 8 + loadHeader(data, entry).length
                     - loadHeader(data, entry).freeBytes),
               0, entry.totalValues).values

\* find once findLeaf(searchKey) has settled
findInLeaf(data, searchKey, leaf, i) ==
    IF leaf.err # NoError THEN [ err |-> leaf.err, found |-> FALSE, values |-> << >> ]
    ELSE IF i = 0 THEN [ err |-> NoError, found |-> FALSE, values |-> << >> ]
    ELSE [ err |-> NoError, found |-> TRUE,
           values |-> IF leaf.entries[i].ext THEN loadValues(data, leaf.entries[i])
                      ELSE leaf.entries[i].values ]

\* BinaryBPlusTree.find(searchKey): err, found, and the record pointers
\* (the single value of a unique tree as a list of one)
find(data, searchKey) ==
    findInLeaf(data, searchKey, findLeaf(data, searchKey),
               findEntryIndex(findLeaf(data, searchKey).entries, searchKey))

\* ---------------------------------------------------------------------
\* Writers and the free-space allocator.  They work on the memory of one
\* tree object, st = [disk, fst]: the byte array and the _fst list of
\* reclaimed blocks.  _writeFn is the array writer of the constructor: it
\* stores the bytes at once and never fails.
\* ---------------------------------------------------------------------
_writeFn(st, data, index) == [st EXCEPT !.disk = Patch(@, data, index)]

RECURSIVE writeAll(_, _)
writeAll(st, writes) ==
    IF writes = << >> THEN st
    ELSE writeAll(_writeFn(st, Head(writes).bytes, Head(writes).index), Tail(writes))

RECURSIVE setPointers(_, _)
setPointers(bytes, pointers) ==
    IF pointers = << >> THEN bytes
    ELSE setPointers(Patch(bytes, _writeByteLength(Head(pointers).targetIndex),
                           Head(pointers).pointerIndex),
                     Tail(pointers))

\* BinaryBPlusTree._writeLeaf(leafInfo): the ext_data blocks addExtData wrote
\* stay written when createLeaf throws after them
\* the bytes a builder made written at index, behind the ext_data blocks
\* addExtData wrote
writeBuilt(st, index, built) ==
    IF built.err # NoError THEN [ err |-> built.err, st |-> writeAll(st, built.writes) ]
    ELSE [ err |-> NoError,
           st |-> _writeFn(writeAll(st, built.writes),
                           setPointers(built.bytes, built.pointers), index) ]

_writeLeaf(st, leaf) ==
    writeBuilt(st, leaf.index,
        createLeaf(_getReader(st.disk).isUnique, _getReader(st.disk).entriesPerNode,
            [ index |-> leaf.index, prevIndex |-> prevLeafIndex(leaf),
              nextIndex |-> nextLeafIndex(leaf), entries |-> leaf.entries,
              hasExtInfo |-> TRUE, extLength |-> leaf.extLength,
              extFreeBytes |-> leaf.extFreeBytes, extRebuild |-> leaf.extLoaded ],
            [ maxLength |-> leaf.length, canAddExtData |-> TRUE,
              extBase |-> leaf.index + leaf.length ]))

\* BinaryBPlusTree._writeNode(nodeInfo); createNode throws out of it
_writeNode(st, node) ==
    writeBuilt(st, node.index,
        createNode(_getReader(st.disk).entriesPerNode,
            [ index |-> node.index, gtIndex |-> node.gtChildIndex,
              entries |-> [i \in 1..Len(node.entries) |->
                            [ key |-> node.entries[i].key,
                              ltIndex |-> node.entries[i].ltChildIndex ]] ],
            node.length))

\* _registerFreeSpace putting every block on the list
_registerOnList(st, index, length) ==
    [st EXCEPT !.fst = Append(@, [index |-> index, length |-> length])]

\* _registerFreeSpace(index, length)
_registerFreeSpace(st, index, length) ==
    LET info == _getReader(st.disk)
    IN
        IF index + length = info.byteLength - info.freeSpace
        THEN _writeFn(st, _writeByteLength(info.freeSpace + length), info.freeSpaceIndex)
        ELSE [st EXCEPT !.fst = Append(@, [index |-> index, length |-> length])]

RECURSIVE SumLengths(_)
SumLengths(blocks) ==
    IF blocks = << >> THEN 0 ELSE Head(blocks).length + SumLengths(Tail(blocks))

\* positions in _fst of the blocks of at least bytesRequired bytes, the
\* smallest or not
FittingBlocks(fst, bytesRequired) ==
    { i \in 1..Len(fst) : fst[i].length >= bytesRequired }

\* positions in _fst of the smallest blocks of at least bytesRequired bytes
BestBlocks(fst, bytesRequired) ==
    { i \in 1..Len(fst) :
        /\ fst[i].length >= bytesRequired
        /\ \A j \in 1..Len(fst) :
              fst[j].length >= bytesRequired => fst[i].length <= fst[j].length }

RemoveAt(seq, i) == [j \in 1..(Len(seq) - 1) |-> IF j < i THEN seq[j] ELSE seq[j + 1]]

\* Math.round(x * 0.5)
RoundHalf(x) == (x + 1) \div 2

\* _growTree growing the tree by all the bytes needed
_growTreeByAll(st, bytesNeeded) ==
    LET info == _getReader(st.disk)
    IN
        _writeFn(_writeFn(st, _writeByteLength(info.byteLength + bytesNeeded), 0),
                 _writeByteLength(info.freeSpace + bytesNeeded), info.freeSpaceIndex)

\* _growTree(bytesNeeded), autoGrow being set
_growTree(st, bytesNeeded) ==
    LET info == _getReader(st.disk)
        grow == bytesNeeded - info.freeSpace
    IN
        _writeFn(_writeFn(st, _writeByteLength(info.byteLength + grow), 0),
                 _writeByteLength(info.freeSpace + grow), info.freeSpaceIndex)

\* carveTail leaving the free length of the header as it was
carveTailKeepsFree(st, bytesRequired) ==
    LET info == _getReader(st.disk)
    IN
        [ err |-> NoError, thrown |-> FALSE, st |-> st,
          index |-> info.byteLength - info.freeSpace, length |-> bytesRequired ]

\* the `go` of _requestFreeSpace: carves the block off the free tail
carveTail(st, bytesRequired) ==
    LET info == _getReader(st.disk)
    IN
        [ err |-> NoError, thrown |-> FALSE,
          st |-> _writeFn(st, _writeByteLength(info.freeSpace - bytesRequired),
                          info.freeSpaceIndex),
          index |-> info.byteLength - info.freeSpace, length |-> bytesRequired ]

\* _requestFreeSpace giving the best block without the splice that takes
\* it off the list
_requestKeepingBlock(st, tree, bytesRequired, pick) ==
    LET info == _getReader(st.disk)
        best == BestBlocks(st.fst, bytesRequired)
        chosen == IF pick \in best THEN pick ELSE CHOOSE i \in best : TRUE
    IN
        IF best # {}
        THEN [ err |-> NoError, thrown |-> FALSE, st |-> st,
               index |-> st.fst[chosen].index, length |-> st.fst[chosen].length ]
        ELSE IF SumLengths(st.fst) > RoundHalf(tree.originalByteLength)
        THEN [ err |-> "too much space being wasted. tree rebuild is needed",
               thrown |-> TRUE, st |-> st, index |-> 0, length |-> 0 ]
        ELSE IF info.freeSpace >= bytesRequired THEN carveTail(st, bytesRequired)
        ELSE IF tree.autoGrow THEN carveTail(_growTree(st, bytesRequired), bytesRequired)
        ELSE [ err |-> "not enough free space available", thrown |-> FALSE,
               st |-> st, index |-> 0, length |-> 0 ]

\* _requestFreeSpace(bytesRequired).  `pick` is the block the sort with its
\* inconsistent comparator puts first among the smallest fitting ones;
\* `thrown` tells a synchronous throw from a rejected promise.
_requestFreeSpace(st, tree, bytesRequired, pick) ==
    LET info == _getReader(st.disk)
        best == BestBlocks(st.fst, bytesRequired)
        chosen == IF pick \in best THEN pick ELSE CHOOSE i \in best : TRUE
    IN
        IF best # {}
        THEN [ err |-> NoError, thrown |-> FALSE,
               st |-> [st EXCEPT !.fst = RemoveAt(@, chosen)],
               index |-> st.fst[chosen].index, length |-> st.fst[chosen].length ]
        ELSE IF SumLengths(st.fst) > RoundHalf(tree.originalByteLength)
        THEN [ err |-> "too much space being wasted. tree rebuild is needed",
               thrown |-> TRUE, st |-> st, index |-> 0, length |-> 0 ]
        ELSE IF info.freeSpace >= bytesRequired THEN carveTail(st, bytesRequired)
        ELSE IF tree.autoGrow THEN carveTail(_growTree(st, bytesRequired), bytesRequired)
        ELSE [ err |-> "not enough free space available", thrown |-> FALSE,
               st |-> st, index |-> 0, length |-> 0 ]

\* ---------------------------------------------------------------------
\* TX: the steps of a transaction are numbered 1..n; Action(st, i) runs the
\* action of step i and gives [err, thrown, st], Rollback(st, i) its
\* rollback.  Every write being made at once, a step has settled (state
\* 'success' or 'failed') by the time the rollbacks are called.
\* ---------------------------------------------------------------------
\* TX.execute(true)
TXexecute(st, n, Action(_, _), Rollback(_, _)) ==
    LET acted[i \in 0..n] ==
            IF i = 0 THEN [ st |-> st, failed |-> << >>, err |-> NoError, thrown |-> FALSE ]
            ELSE LET prev == acted[i - 1]
                     r == Action(prev.st, i)
                 IN
                     IF prev.thrown THEN prev
                     ELSE IF r.thrown
                     THEN [ st |-> r.st, failed |-> prev.failed, err |-> r.err,
                            thrown |-> TRUE ]
                     ELSE [ st |-> r.st, failed |-> Append(prev.failed, r.err # NoError),
                            err |-> IF prev.err = NoError THEN r.err ELSE prev.err,
                            thrown |-> FALSE ]
    IN
    LET done == acted[n]
        \* the rollbacks of the steps that did not fail, in queue order; one
        \* that throws ends the map and replaces the error
    IN
    LET rolled[i \in 0..n] ==
            IF i = 0 THEN [ st |-> done.st, err |-> done.err, thrown |-> FALSE ]
            ELSE LET prev == rolled[i - 1]
                     r == Rollback(prev.st, i)
                 IN
                     IF prev.thrown \/ done.failed[i] THEN prev
                     ELSE IF r.thrown THEN [ st |-> r.st, err |-> r.err, thrown |-> TRUE ]
                     ELSE [ st |-> r.st, err |-> prev.err, thrown |-> FALSE ]
    IN
        IF done.thrown \/ done.err = NoError
        THEN [ err |-> done.err, st |-> done.st, rolledBack |-> { } ]
        ELSE [ err |-> rolled[n].err, st |-> rolled[n].st,
               \* the steps whose rollback was called
               rolledBack |-> { i \in 1..n : ~done.failed[i] /\ ~rolled[i - 1].thrown } ]

\* leaf.extData.load(): reads the used part of the leaf's ext_data and has
\* every ext_data entry take its header and values from it
loadExtData(data, leaf) ==
    LET allExtData == Slice(data, leaf.index + leaf.length,
                            leaf.index + leaf.length + leaf.extLength - leaf.extFreeBytes)
    IN
    LET loadFromExtData(entry) ==
            [entry EXCEPT !.loaded = TRUE,
                          !.blockLength = _readByteLength(allExtData, entry.leafOffset),
                          !.blockFree = _readByteLength(allExtData, entry.leafOffset + 4),
                          !.values = readValues(allExtData, entry.leafOffset + 8,
                                                entry.totalValues).values]
    IN
        [leaf EXCEPT !.extLoaded = TRUE,
                     !.entries = [i \in 1..Len(leaf.entries) |->
                                    IF leaf.entries[i].ext THEN loadFromExtData(leaf.entries[i])
                                    ELSE leaf.entries[i]]]

\* the parent node with the pointer to the leaf set to newIndex
pointParentAt(leaf, newIndex) ==
    IF leaf.parentEntry # 0
    THEN [leaf.parentNode EXCEPT !.entries[leaf.parentEntry].ltChildIndex = newIndex]
    ELSE [leaf.parentNode EXCEPT !.gtChildIndex = newIndex]

\* applyChanges of add: pushes the value onto the entry, if asked for
applyChanges(leaf, apply) ==
    IF apply.on
    THEN [leaf EXCEPT !.entries[apply.entryIndex].values = Append(@, apply.recordPointer)]
    ELSE leaf

NoChanges == [ on |-> FALSE, entryIndex |-> 0, recordPointer |-> << >> ]

\* a BinaryBPlusTreeLeaf made by `new` in _rebuildLeaf and _splitLeaf: it
\* is given no tree, no parent, and the default extData
NewLeaf(index, length, hasExtData) ==
    [ index |-> index, length |-> length, free |-> 0, hasExtData |-> hasExtData,
      prevLeafOffset |-> 0, nextLeafOffset |-> 0, extLength |-> 0, extFreeBytes |-> 0,
      extLoaded |-> FALSE, entries |-> << >>, err |-> NoError, hasTree |-> FALSE,
      hasParent |-> FALSE, parentNode |-> NoNode, parentEntry |-> 0 ]

\* the nextLeafIndex setter reads this.tree.info for a new index above 0
nextLeafSetterThrows(leaf, newIndex) == newIndex > 0 /\ ~leaf.hasTree

AnyUnloaded(entries) == \E i \in 1..Len(entries) : entries[i].ext /\ ~entries[i].loaded

\* the entries of the new leaf of _rebuildLeaf: key and values only
CopyEntries(entries) ==
    [i \in 1..Len(entries) |-> NewLeafEntry(entries[i].key, entries[i].values)]

RebuildError(message) == "Not enough free space left to rebuild leaf: " \o message

\* the TX steps of _rebuildLeaf
RebuildSteps(leaf) ==
    << "new leaf" >>
    \o (IF leaf.prevLeafOffset # 0 THEN << "prev leaf next_leaf_ptr" >> ELSE << >>)
    \o (IF leaf.nextLeafOffset # 0 THEN << "next leaf prev_leaf_ptr" >> ELSE << >>)
    \o << "parent node" >>

\* the end of _rebuildLeaf: the transaction has settled
rebuildSettled(leaf, tx) ==
    IF tx.err # NoError THEN [ err |-> RebuildError(tx.err), st |-> tx.st ]
    ELSE [ err |-> NoError,
           st |-> _registerFreeSpace(tx.st, leaf.index, leaf.length + leaf.extLength) ]

\* the transaction of _rebuildLeaf that writes newLeaf and points the
\* neighbours and the parent at it
rebuildWritten(st, leaf, newLeaf) ==
    LET steps == RebuildSteps(leaf)
        prevPtrIndex == prevLeafIndex(leaf) + 15
        nextPtrIndex == nextLeafIndex(leaf) + 9
        Written(w, throws) == [ err |-> w.err, thrown |-> throws /\ w.err # NoError,
                                st |-> w.st ]
        Action(s, i) ==
            IF steps[i] = "new leaf" THEN Written(_writeLeaf(s, newLeaf), FALSE)
            ELSE IF steps[i] = "prev leaf next_leaf_ptr"
            THEN [ err |-> NoError, thrown |-> FALSE,
                   st |-> _writeFn(s, _writeSignedOffset(
                            nextLeafOffsetFor(prevLeafIndex(leaf), newLeaf.index)),
                            prevPtrIndex) ]
            ELSE IF steps[i] = "next leaf prev_leaf_ptr"
            THEN [ err |-> NoError, thrown |-> FALSE,
                   st |-> _writeFn(s, _writeSignedOffset(
                            prevLeafOffsetFor(nextLeafIndex(leaf), newLeaf.index)),
                            nextPtrIndex) ]
            ELSE Written(_writeNode(s, pointParentAt(leaf, newLeaf.index)), TRUE)
        Rollback(s, i) ==
            IF steps[i] = "new leaf"
            THEN [ err |-> "ReferenceError: err is not defined", thrown |-> TRUE, st |-> s ]
            ELSE IF steps[i] = "prev leaf next_leaf_ptr"
            THEN [ err |-> NoError, thrown |-> FALSE,
                   st |-> _writeFn(s, _writeSignedOffset(
                            nextLeafOffsetFor(prevLeafIndex(leaf), leaf.index)),
                            prevPtrIndex) ]
            ELSE IF steps[i] = "next leaf prev_leaf_ptr"
            THEN [ err |-> NoError, thrown |-> FALSE,
                   st |-> _writeFn(s, _writeSignedOffset(
                            prevLeafOffsetFor(nextLeafIndex(leaf), leaf.index)),
                            nextPtrIndex) ]
            ELSE [ err |-> "TypeError: Cannot read property 'parentNode' of undefined",
                   thrown |-> TRUE, st |-> s ]
    IN
        rebuildSettled(leaf, TXexecute(st, Len(steps), Action, Rollback))

\* _rebuildLeaf once _requestFreeSpace has settled: the new leaf is made
\* at the allocated index and linked like the old one
rebuildAllocated(leaf, newLeafLength, newLeafExtDataLength, apply, allocated) ==
    IF allocated.err # NoError
    THEN [ err |-> IF allocated.thrown THEN allocated.err ELSE RebuildError(allocated.err),
           st |-> allocated.st ]
    ELSE IF nextLeafSetterThrows(NewLeaf(allocated.index, newLeafLength, leaf.hasExtData),
                                 nextLeafIndex(leaf))
    THEN [ err |-> RebuildError("TypeError: Cannot read property 'info' of undefined"),
           st |-> allocated.st ]
    ELSE IF AnyUnloaded(leaf.entries)
    THEN [ err |-> RebuildError("ext_data values were not read yet"),
           st |-> allocated.st ]
    ELSE IF ~leaf.hasParent
    THEN [ err |-> RebuildError("TypeError: Cannot set property 'gtChildIndex' of undefined"),
           st |-> allocated.st ]
    ELSE IF leaf.entries = << >>
    THEN [ err |-> RebuildError("TypeError: Cannot read property 'key' of undefined"),
           st |-> allocated.st ]
    ELSE rebuildWritten(allocated.st, leaf,
            applyChanges(
                [NewLeaf(allocated.index, newLeafLength, leaf.hasExtData) EXCEPT
                    !.prevLeafOffset = prevLeafOffsetFor(allocated.index, prevLeafIndex(leaf)),
                    !.nextLeafOffset = nextLeafOffsetFor(allocated.index, nextLeafIndex(leaf)),
                    !.entries = CopyEntries(leaf.entries),
                    !.extLoaded = leaf.hasExtData,
                    !.extLength = IF leaf.hasExtData THEN newLeafExtDataLength ELSE 0,
                    !.extFreeBytes = IF leaf.hasExtData
                                     THEN leaf.extFreeBytes
                                          + (newLeafExtDataLength - leaf.extLength)
                                     ELSE 0],
                apply))

\* _rebuildLeaf, the ext_data of the leaf being loaded
rebuildLoaded(st, tree, leaf, growData, growExtData, apply, pick) ==
    LET newLeafExtDataLength == IF growExtData THEN CeilTimes11(leaf.extLength)
                                ELSE leaf.extLength
        newLeafLength == IF growData THEN CeilTimes11(leaf.length) ELSE leaf.length
        leafGrows == growData \/ growExtData
        bytesNeeded == IF leafGrows THEN newLeafLength + newLeafExtDataLength ELSE 0
    IN
        IF leaf.hasExtData /\ ~leafGrows
        THEN _writeLeaf(st, applyChanges(leaf, apply))
        ELSE rebuildAllocated(leaf, newLeafLength, newLeafExtDataLength, apply,
                              _requestFreeSpace(st, tree, bytesNeeded, pick))

\* _rebuildLeaf(leaf, { growData, growExtData, applyChanges }) as add calls
\* it (options.nextLeaf is never given).  leaf0 is the leaf as add holds it.
_rebuildLeaf(st, tree, leaf0, growData, growExtData, apply, pick) ==
    rebuildLoaded(st, tree,
        IF leaf0.hasExtData /\ ~leaf0.extLoaded THEN loadExtData(st.disk, leaf0) ELSE leaf0,
        growData, growExtData, apply, pick)

SplitError(message) == "Not enough free space left to split leaf: " \o message

\* leaf.getNext(): the next leaf, read afresh; it has no parent.  The
\* arguments of its console.assert read the first key of the next leaf and
\* the last key of this one, which throws when either leaf has no entries.
getNextRead(leaf, nextLeaf) ==
    IF nextLeaf.err = NoError /\ (nextLeaf.entries = << >> \/ leaf.entries = << >>)
    THEN FailedLeaf("TypeError: Cannot read property 'key' of undefined")
    ELSE nextLeaf

getNext(data, leaf) ==
    getNextRead(leaf, _getLeaf(_getReader(data), _readChild(data, nextLeafIndex(leaf))))

\* entries.slice(-n) and the entries left by entries.splice(-n)
LastEntries(entries, n) ==
    IF n = 0 THEN entries ELSE Slice(entries, Len(entries) - n, Len(entries))
WithoutLast(entries, n) ==
    IF n = 0 THEN << >> ELSE Slice(entries, 0, Len(entries) - n)

RECURSIVE UsedExtBytes(_)
UsedExtBytes(entries) ==
    IF entries = << >> THEN 0
    ELSE (IF Head(entries).ext THEN Head(entries).blockLength - Head(entries).blockFree ELSE 0)
         + UsedExtBytes(Tail(entries))

InsertAt(seq, i, e) ==
    [j \in 1..(Len(seq) + 1) |-> IF j < i THEN seq[j] ELSE IF j = i THEN e ELSE seq[j - 1]]

\* undoAdd of add: takes the inserted entry out again.  insertedAt is its
\* position, 0 when it was pushed at the end.
undoAdd(entries, insertedAt) ==
    IF insertedAt = 0 THEN Slice(entries, 0, Len(entries) - 1)
    ELSE RemoveAt(entries, insertedAt)

\* the end of _splitLeaf: the transaction has settled.  entries is what
\* leaf.entries, the entries of the leaf object add has passed, holds by
\* then: the rollback of the step that rewrites the leaf puts the moved
\* entries back and calls cancelCallback, the undoAdd of add
splitSettled(tx, steps, split, restored) ==
    [ err |-> IF tx.err # NoError THEN SplitError(tx.err) ELSE NoError, st |-> tx.st,
      entries |-> IF \E i \in tx.rolledBack : steps[i] = "this leaf" THEN restored
                  ELSE split ]

\* the transaction of _splitLeaf that writes the new leaf, the leafs next
\* to it and the parent node
splitWritten(allocated, leaf1, nextLeaf0, movingEntries, insertedAt, newLeaf) ==
    LET hasNext == leaf1.nextLeafOffset # 0
        leaf == [leaf1 EXCEPT
                   !.nextLeafOffset = nextLeafOffsetFor(leaf1.index, newLeaf.index),
                   !.entries = WithoutLast(leaf1.entries, Len(movingEntries))]
        nextLeaf == [nextLeaf0 EXCEPT
                       !.prevLeafOffset = prevLeafOffsetFor(nextLeaf0.index, newLeaf.index)]
        parentNode ==
            IF leaf1.parentEntry # 0
            THEN [leaf1.parentNode EXCEPT
                    !.entries = InsertAt(
                        [@ EXCEPT ![leaf1.parentEntry].key = movingEntries[1].key],
                        leaf1.parentEntry + 1,
                        [ key |-> nextLeaf0.entries[1].key, ltChildIndex |-> newLeaf.index ])]
            ELSE [leaf1.parentNode EXCEPT
                    !.entries = Append(@, [ key |-> movingEntries[1].key,
                                            ltChildIndex |-> leaf1.index ]),
                    !.gtChildIndex = newLeaf.index]
        steps == << "new leaf" >> \o (IF hasNext THEN << "next leaf" >> ELSE << >>)
                 \o << "this leaf", "parent node" >>
        restored == [leaf1 EXCEPT
                       !.entries = undoAdd(WithoutLast(leaf1.entries, Len(movingEntries))
                                           \o movingEntries, insertedAt),
                       !.nextLeafOffset = nextLeafOffsetFor(leaf1.index,
                                             IF hasNext THEN nextLeaf0.index ELSE 0)]
        Written(w, throws) == [ err |-> w.err, thrown |-> throws /\ w.err # NoError,
                                st |-> w.st ]
        Action(s, i) ==
            IF steps[i] = "new leaf" THEN Written(_writeLeaf(s, newLeaf), FALSE)
            ELSE IF steps[i] = "next leaf" THEN Written(_writeLeaf(s, nextLeaf), FALSE)
            ELSE IF steps[i] = "this leaf" THEN Written(_writeLeaf(s, leaf), FALSE)
            ELSE Written(_writeNode(s, parentNode), TRUE)
        Rollback(s, i) ==
            IF steps[i] = "new leaf"
            THEN [ err |-> NoError, thrown |-> FALSE,
                   st |-> _registerFreeSpace(s, allocated.index, allocated.length) ]
            ELSE IF steps[i] = "next leaf"
            THEN Written(_writeLeaf(s, [nextLeaf0 EXCEPT
                            !.prevLeafOffset = prevLeafOffsetFor(nextLeaf0.index, leaf1.index)]),
                         FALSE)
            ELSE IF steps[i] = "this leaf" THEN Written(_writeLeaf(s, restored), FALSE)
            ELSE Written(_writeNode(s, leaf1.parentNode), TRUE)
    IN
        splitSettled(TXexecute(allocated.st, Len(steps), Action, Rollback), steps,
                     leaf.entries, restored.entries)

\* _splitLeaf once _requestFreeSpace has settled: the new leaf is made at
\* the allocated index, behind this leaf
splitAllocated(leaf1, nextLeaf0, movingEntries, movingExtDataLength, insertedAt, allocated) ==
    LET hasNext == leaf1.nextLeafOffset # 0
        newLeafExtDataLength == CeilTimes11(movingExtDataLength)
    IN
        IF allocated.err # NoError
        THEN [ err |-> IF allocated.thrown THEN allocated.err ELSE SplitError(allocated.err),
               st |-> allocated.st, entries |-> leaf1.entries ]
        ELSE IF nextLeafSetterThrows(NewLeaf(allocated.index, leaf1.length, FALSE),
                                     IF hasNext THEN nextLeaf0.index ELSE 0)
        THEN [ err |-> SplitError("TypeError: Cannot read property 'info' of undefined"),
               st |-> allocated.st, entries |-> leaf1.entries ]
        ELSE IF leaf1.parentEntry # 0 /\ (~hasNext \/ nextLeaf0.entries = << >>)
        THEN [ err |-> SplitError("TypeError: Cannot read property 'entries' of null"),
               st |-> allocated.st,
               entries |-> WithoutLast(leaf1.entries, Len(movingEntries)) ]
        ELSE splitWritten(allocated, leaf1, nextLeaf0, movingEntries, insertedAt,
                [NewLeaf(allocated.index, leaf1.length, FALSE) EXCEPT
                    !.extLoaded = newLeafExtDataLength > 0,
                    !.extLength = newLeafExtDataLength,
                    !.extFreeBytes = IF newLeafExtDataLength > 0
                                     THEN newLeafExtDataLength - movingExtDataLength
                                     ELSE 0,
                    !.prevLeafOffset = prevLeafOffsetFor(allocated.index, leaf1.index),
                    !.nextLeafOffset = nextLeafOffsetFor(allocated.index,
                                          IF hasNext THEN nextLeaf0.index ELSE 0),
                    !.entries = movingEntries])

\* splitLoaded without a look at the parent node
splitLoadedAnyParent(st, tree, leaf1, nextLeaf0, movingEntries, movingExtDataLength, insertedAt, pick) ==
    IF leaf1.nextLeafOffset # 0 /\ nextLeaf0.err # NoError
    THEN [ err |-> nextLeaf0.err, st |-> st, entries |-> leaf1.entries ]
    ELSE IF AnyUnloaded(movingEntries)
    THEN [ err |-> "ext_data header not read yet", st |-> st, entries |-> leaf1.entries ]
    ELSE splitAllocated(leaf1, nextLeaf0, movingEntries, movingExtDataLength, insertedAt,
            _requestFreeSpace(st, tree,
                leaf1.length + CeilTimes11(movingExtDataLength), pick))

\* _splitLeaf, the next leaf being read and the ext_data of the leaf loaded:
\* the last half of the entries moves to a new leaf
splitLoaded(st, tree, leaf1, nextLeaf0, movingEntries, movingExtDataLength, insertedAt, pick) ==
    IF Len(leaf1.parentNode.entries) >= _getReader(st.disk).entriesPerNode
    THEN [ err |-> "Cannot split leaf because parent node is full", st |-> st,
           entries |-> leaf1.entries ]
    ELSE IF leaf1.nextLeafOffset # 0 /\ nextLeaf0.err # NoError
    THEN [ err |-> nextLeaf0.err, st |-> st, entries |-> leaf1.entries ]
    ELSE IF AnyUnloaded(movingEntries)
    THEN [ err |-> "ext_data header not read yet", st |-> st, entries |-> leaf1.entries ]
    ELSE splitAllocated(leaf1, nextLeaf0, movingEntries, movingExtDataLength, insertedAt,
            _requestFreeSpace(st, tree,
                leaf1.length + CeilTimes11(movingExtDataLength), pick))

\* the leaf of _splitLeaf with its ext_data loaded
splitMoving(st, tree, leaf1, nextLeaf0, movingEntries, insertedAt, pick) ==
    splitLoaded(st, tree, leaf1, nextLeaf0, movingEntries,
        CeilDiv(UsedExtBytes(movingEntries) * _getReader(st.disk).entriesPerNode,
                Len(movingEntries)),
        insertedAt, pick)

\* _splitLeaf(leaf, { cancelCallback: undoAdd }) as add calls it
_splitLeaf(st, tree, leaf0, insertedAt, pick) ==
    splitMoving(st, tree,
        IF leaf0.hasExtData /\ ~leaf0.extLoaded THEN loadExtData(st.disk, leaf0) ELSE leaf0,
        getNext(st.disk, leaf0),
        LastEntries(
            IF leaf0.hasExtData /\ ~leaf0.extLoaded
            THEN loadExtData(st.disk, leaf0).entries ELSE leaf0.entries,
            Len(leaf0.entries) \div 2),
        insertedAt, pick)

\* ---------------------------------------------------------------------
\* The ext_data sideband of one leaf entry
\* ---------------------------------------------------------------------
\* addValue once loadHeader has settled
addValueLoaded(st, entry, extValueData, header) ==
    IF Len(extValueData) > header.freeBytes
    THEN [ err |-> "No space left to add value to leaf ext_data_block", st |-> st ]
    ELSE [ err |-> NoError,
           st |-> _writeFn(
                    _writeFn(
                        _writeFn(st, extValueData,
                                 entry.extIndex + 8 + header.length - header.freeBytes),
                        _writeByteLength(header.length)
                        \o _writeByteLength(header.freeBytes - Len(extValueData)),
                        entry.extIndex),
                    _writeByteLength(entry.totalValues + 1), entry.listLengthIndex) ]

\* entry.extData.addValue(recordPointer)
addValue(st, entry, recordPointer) ==
    addValueLoaded(st, entry, getLeafEntryValueBytes(recordPointer),
                   loadHeader(st.disk, entry))

\* index of the first value equal to recordPointer (_compareBinary), 0 if none
RECURSIVE findValueFrom(_, _, _)
findValueFrom(values, recordPointer, i) ==
    IF i > Len(values) THEN 0
    ELSE IF values[i] = recordPointer THEN i
    ELSE findValueFrom(values, recordPointer, i + 1)

findValueIndex(values, recordPointer) == findValueFrom(values, recordPointer, 1)

\* removeValue once loadValues has settled
removeValueLoaded(st, entry, header, values, index) ==
    IF index = 0 THEN [ err |-> NoError, st |-> st ]
    ELSE [ err |-> NoError,
           st |-> _writeFn(
                    _writeFn(st,
                        _writeByteLength(header.length)
                        \o _writeByteLength(header.length - Len(_writeByteLength(header.length)))
                        \o ValuesBytes(RemoveAt(values, index)),
                        entry.extIndex),
                    _writeByteLength(entry.totalValues - 1), entry.listLengthIndex) ]

\* entry.extData.removeValue(recordPointer): the block is written anew with
\* the free length computed when only the block length has been put into
\* the bytes, that is from bytes.length = 4
removeValue(st, entry, recordPointer) ==
    removeValueLoaded(st, entry, loadHeader(st.disk, entry), loadValues(st.disk, entry),
                      findValueIndex(loadValues(st.disk, entry), recordPointer))

\* ---------------------------------------------------------------------
\* The mutators: add, remove, update, transaction
\* ---------------------------------------------------------------------
\* err.message.match(/ext_data/) over the messages _writeLeaf rejects with
IsExtDataError(err) ==
    err \in { "leaf needs rebuild: not enough free space to extend it with ext_data",
              "Not enough free space in ext_data",
              "leaf ext_data grew larger than the bytes available to it",
              "ext_data values were not read yet" }

CantAdd(message) == "Can't add key: " \o message

\* index of the first entry with a key above `key`, 0 if none
RECURSIVE FindMoreFrom(_, _, _)
FindMoreFrom(entries, key, i) ==
    IF i > Len(entries) THEN 0
    ELSE IF _isMore(entries[i].key, key) THEN i
    ELSE FindMoreFrom(entries, key, i + 1)

\* the error of add's last catch
Wrapped(r) == IF r.err = NoError THEN r ELSE [ err |-> CantAdd(r.err), st |-> r.st ]

\* promise.catch(() => alternative)
OrElse(settled, alternative) == IF settled.err = NoError THEN settled ELSE alternative

\* add once _writeLeaf(leaf) has settled: a rejected write has the leaf
\* rebuilt, with its data and its ext_data grown (both), or with the one
\* of them the error tells
addWritten(tree, leaf, written, both, pick) ==
    IF written.err = NoError THEN written
    ELSE Wrapped(_rebuildLeaf(written.st, tree, leaf,
                    both \/ ~IsExtDataError(written.err),
                    both \/ IsExtDataError(written.err), NoChanges, pick))

\* add of a new entry, `inserted` being the leaf with the entry put in
addNew(st, tree, leaf, inserted, insertBeforeIndex, pick) ==
    IF Len(inserted.entries) <= _getReader(st.disk).entriesPerNode
    THEN addWritten(tree, inserted, _writeLeaf(st, inserted), TRUE, pick)
    ELSE IF ~leaf.hasParent
    THEN [ err |-> "ReferenceError: Cannot access 'undoAdd' before initialization",
           st |-> st ]
    ELSE Wrapped(_splitLeaf(st, tree, inserted, insertBeforeIndex, pick))

\* add once findLeaf(key) has settled
addToLeaf(st, tree, key, recordPointer, pick, leaf) ==
    LET entryIndex == findEntryIndex(leaf.entries, key)
        \* a value added to the values of an existing key
        pushed == [leaf EXCEPT !.entries[entryIndex].values = Append(@, recordPointer)]
        \* a new entry
        insertBeforeIndex == FindMoreFrom(leaf.entries, key, 1)
        newEntry == NewLeafEntry(key, << recordPointer >>)
    IN
        IF leaf.err # NoError THEN [ err |-> leaf.err, st |-> st ]
        ELSE IF _getReader(st.disk).isUnique /\ entryIndex # 0
        THEN [ err |-> "Cannot add duplicate key: tree expects unique keys", st |-> st ]
        ELSE IF entryIndex # 0 /\ leaf.entries[entryIndex].ext
        THEN \* a value added to the ext_data of an existing key
             OrElse(addValue(st, leaf.entries[entryIndex], recordPointer),
                    _rebuildLeaf(st, tree, leaf, FALSE, TRUE,
                        [ on |-> TRUE, entryIndex |-> entryIndex,
                          recordPointer |-> recordPointer ], pick))
        ELSE IF entryIndex # 0
        THEN addWritten(tree, pushed, _writeLeaf(st, pushed), FALSE, pick)
        ELSE addNew(st, tree, leaf,
                [leaf EXCEPT !.entries =
                    IF insertBeforeIndex = 0 THEN Append(@, newEntry)
                    ELSE InsertAt(@, insertBeforeIndex, newEntry)],
                insertBeforeIndex, pick)

\* BinaryBPlusTree.add(key, recordPointer), the tree lock being held
add(st, tree, key, recordPointer, pick) ==
    addToLeaf(st, tree, key, recordPointer, pick, findLeaf(st.disk, key))

\* remove once findLeaf(key) has settled
removeFromLeaf(st, key, given, recordPointer, leaf) ==
    LET isUnique == _getReader(st.disk).isUnique
        entryIndex == findEntryIndex(leaf.entries, key)
        entry == leaf.entries[entryIndex]
        valueIndex == findValueIndex(entry.values, recordPointer)
    IN
        IF leaf.err # NoError THEN [ err |-> leaf.err, st |-> st ]
        ELSE IF entryIndex = 0 THEN [ err |-> NoError, st |-> st ]
        ELSE IF ~isUnique /\ given /\ entry.ext
        THEN [ err |-> "ext_data values were not read yet", st |-> st ]
        ELSE IF isUnique \/ ~given \/ Len(entry.values) = 1
        THEN _writeLeaf(st, [leaf EXCEPT !.entries = RemoveAt(@, entryIndex)])
        ELSE IF valueIndex = 0 THEN [ err |-> NoError, st |-> st ]
        ELSE _writeLeaf(st, [leaf EXCEPT !.entries[entryIndex].values =
                                            RemoveAt(@, valueIndex)])

\* BinaryBPlusTree.remove(key, recordPointer); given = FALSE stands for a
\* call without record pointer
remove(st, key, given, recordPointer) ==
    removeFromLeaf(st, key, given, recordPointer, findLeaf(st.disk, key))

\* update once findLeaf(key) has settled
updateInLeaf(st, key, newRecordPointer, given, currentRecordPointer, leaf) ==
    LET entryIndex == findEntryIndex(leaf.entries, key)
        entry == leaf.entries[entryIndex]
        valueIndex == findValueIndex(entry.values, currentRecordPointer)
    IN
        IF leaf.err # NoError THEN [ err |-> leaf.err, st |-> st ]
        ELSE IF entryIndex = 0 THEN [ err |-> "Key to update not found", st |-> st ]
        ELSE IF _getReader(st.disk).isUnique
        THEN _writeLeaf(st, [leaf EXCEPT !.entries[entryIndex].values =
                                            << newRecordPointer >>])
        ELSE IF ~given
        THEN [ err |-> "To update a non-unique key, the current value must be passed as parameter",
               st |-> st ]
        ELSE IF entry.ext THEN [ err |-> "ext_data values were not read yet", st |-> st ]
        ELSE IF valueIndex = 0
        THEN [ err |-> "Key/value combination to update not found", st |-> st ]
        ELSE _writeLeaf(st, [leaf EXCEPT !.entries[entryIndex].values[valueIndex] =
                                            newRecordPointer])

\* BinaryBPlusTree.update(key, newRecordPointer, currentRecordPointer)
update(st, key, newRecordPointer, given, currentRecordPointer) ==
    updateInLeaf(st, key, newRecordPointer, given, currentRecordPointer,
                 findLeaf(st.disk, key))

\* one operation of a transaction
OpAdd(key, recordPointer) == [ type |-> "add", key |-> key, recordPointer |-> recordPointer ]
OpRemove(key, recordPointer) ==
    [ type |-> "remove", key |-> key, recordPointer |-> recordPointer ]

\* transaction once the first of the operations has settled
RECURSIVE transaction(_, _, _, _, _)
transactionNext(tree, operations, started, pick, r) ==
    IF r.err # NoError
    THEN [ err |-> r.err, st |-> r.st, operations |-> operations, started |-> started + 1 ]
    ELSE IF Tail(operations) = << >>
    THEN [ err |-> NoError, st |-> r.st, operations |-> << >>, started |-> started + 1 ]
    ELSE transaction(r.st, tree, Tail(operations), started + 1, pick)

\* BinaryBPlusTree.transaction(operations), the operations having valid
\* arguments: err, the memory, the operations list as it is left, and the
\* number of operations started
transaction(st, tree, operations, started, pick) ==
    IF operations = << >>
    THEN [ err |-> "TypeError: Cannot read property 'type' of undefined", st |-> st,
           operations |-> operations, started |-> started ]
    ELSE transactionNext(tree, operations, started, pick,
            IF Head(operations).type = "add"
            THEN add(st, tree, Head(operations).key, Head(operations).recordPointer, pick)
            ELSE remove(st, Head(operations).key, TRUE, Head(operations).recordPointer))

\* ---------------------------------------------------------------------
\* BinaryBPlusTree.create for a tree of one node level: the root node over
\* the leafs.  leafs[i] is the list of entries [key, values] of leaf i.
\* ---------------------------------------------------------------------
\* the leafs appended one behind the other from `index` on
prependLeaf(index, newLeaf, rest) ==
    [ bytes |-> newLeaf \o rest.bytes, leafIndexes |-> << index >> \o rest.leafIndexes ]

\* the leaves written one after the other from index on
RECURSIVE writeLeafs(_, _, _, _, _, _)
writeLeafsFrom(isUnique, maxEntriesPerNode, leafs, i, index, newLeaf) ==
    prependLeaf(index, newLeaf,
                writeLeafs(isUnique, maxEntriesPerNode, leafs, i + 1,
                           index + Len(newLeaf), index))

writeLeafs(isUnique, maxEntriesPerNode, leafs, i, index, prevIndex) ==
    IF i > Len(leafs) THEN [ bytes |-> << >>, leafIndexes |-> << >> ]
    ELSE writeLeafsFrom(isUnique, maxEntriesPerNode, leafs, i, index,
            createLeaf(isUnique, maxEntriesPerNode,
                [ index |-> index, prevIndex |-> prevIndex,
                  nextIndex |-> IF i = Len(leafs) THEN 0 ELSE Adjacent,
                  entries |-> [j \in 1..Len(leafs[i]) |->
                                NewLeafEntry(leafs[i][j].key, leafs[i][j].values)],
                  hasExtInfo |-> FALSE, extLength |-> 0, extFreeBytes |-> 0,
                  extRebuild |-> FALSE ],
                [ maxLength |-> 0, canAddExtData |-> FALSE, extBase |-> 0 ]).bytes)

\* the root node of create: parent entry i is keyed by the first key of
\* leaf i + 1
createRoot(maxEntriesPerNode, leafs, rootNodeIndex, leafIndexes, maxLength) ==
    createNode(maxEntriesPerNode,
        [ index |-> rootNodeIndex,
          gtIndex |-> IF leafIndexes = << >> THEN 0 ELSE leafIndexes[Len(leafs)],
          entries |-> [i \in 1..(Len(leafs) - 1) |->
                        [ key |-> leafs[i + 1][1].key,
                          ltIndex |-> IF leafIndexes = << >> THEN 0
                                      ELSE leafIndexes[i] ]] ],
        maxLength).bytes

\* create once the size of the tree is known
createSized(isUnique, maxEntriesPerNode, fillFactor, allocatedBytes, node, leafBytes, headerLength) ==
    getHeader(isUnique, maxEntriesPerNode, fillFactor,
              IF allocatedBytes > 0 THEN allocatedBytes
              ELSE headerLength + Len(node) + Len(leafBytes)
                   + CeilTimes01(headerLength + Len(node) + Len(leafBytes)),
              IF allocatedBytes > 0
              THEN allocatedBytes - (headerLength + Len(node) + Len(leafBytes))
              ELSE CeilTimes01(headerLength + Len(node) + Len(leafBytes)))
    \o node \o leafBytes
    \o Zeroes(IF allocatedBytes > 0
              THEN allocatedBytes - (headerLength + Len(node) + Len(leafBytes))
              ELSE CeilTimes01(headerLength + Len(node) + Len(leafBytes)))

\* create once the leaves are written
createWritten(isUnique, maxEntriesPerNode, fillFactor, allocatedBytes, leafs, rootNodeIndex, firstPass, written) ==
    createSized(isUnique, maxEntriesPerNode, fillFactor, allocatedBytes,
                createRoot(maxEntriesPerNode, leafs, rootNodeIndex, written.leafIndexes,
                           Len(firstPass)),
                written.bytes, rootNodeIndex)

\* create once the root node is laid out
createLaidOut(isUnique, maxEntriesPerNode, fillFactor, allocatedBytes, leafs, rootNodeIndex, firstPass) ==
    createWritten(isUnique, maxEntriesPerNode, fillFactor, allocatedBytes, leafs,
                  rootNodeIndex, firstPass,
                  writeLeafs(isUnique, maxEntriesPerNode, leafs, 1,
                             rootNodeIndex + Len(firstPass), 0))

create(isUnique, maxEntriesPerNode, fillFactor, allocatedBytes, leafs) ==
    createLaidOut(isUnique, maxEntriesPerNode, fillFactor, allocatedBytes, leafs,
                  Len(getHeader(isUnique, maxEntriesPerNode, fillFactor, allocatedBytes, 1)),
                  createRoot(maxEntriesPerNode, leafs,
                      Len(getHeader(isUnique, maxEntriesPerNode, fillFactor,
                                    allocatedBytes, 1)), << >>, 0))

\* ---------------------------------------------------------------------
\* The in-memory tree: BPlusTree, BPlusTreeNode, BPlusTreeLeaf and
\* BPlusTreeBuilder.  The objects of a tree are held in tree.objects and
\* named by their place in it; MNull is null and undefined.  The parent of
\* the root leaf is the tree itself, which is TheTree.
\* ---------------------------------------------------------------------
MNull == 0
TheTree == -1

\* new BPlusTreeLeaf(parent) and new BPlusTreeNode(tree, parent)
MLeaf(parent, entries, prevLeaf, nextLeaf) ==
    [ isLeaf |-> TRUE, parent |-> parent, entries |-> entries, gtChild |-> MNull,
      prevLeaf |-> prevLeaf, nextLeaf |-> nextLeaf ]

MNode(parent, entries, gtChild) ==
    [ isLeaf |-> FALSE, parent |-> parent, entries |-> entries, gtChild |-> gtChild,
      prevLeaf |-> MNull, nextLeaf |-> MNull ]

\* new BPlusTreeLeafEntry(leaf, key, value) and new BPlusTreeNodeEntry(node, key)
MLeafEntry(key, values) == [ key |-> key, values |-> values, ltChild |-> MNull ]
MNodeEntry(key, ltChild) == [ key |-> key, values |-> << >>, ltChild |-> ltChild ]

\* new BPlusTree(maxEntriesPerNode, uniqueKeys)
BPlusTree(maxEntriesPerNode, uniqueKeys) ==
    [ maxEntriesPerNode |-> maxEntriesPerNode, uniqueKeys |-> uniqueKeys,
      fillFactor |-> 100, depth |-> 1, root |-> 1,
      objects |-> << MLeaf(TheTree, << >>, MNull, MNull) >> ]

\* array.findIndex for a test on the entry, from 1; 0 when there is none
RECURSIVE findIndexFrom(_, _, _)
findIndexFrom(entries, Test(_), i) ==
    IF i > Len(entries) THEN 0
    ELSE IF Test(entries[i]) THEN i
    ELSE findIndexFrom(entries, Test, i + 1)

\* Math.ceil(maxEntriesPerNode / 2)
splitIndexOf(tree) == CeilDiv(tree.maxEntriesPerNode, 2)

\* child.parent = parent for every child listed
RECURSIVE setParents(_, _, _)
setParents(objects, children, parent) ==
    IF children = << >> THEN objects
    ELSE setParents([objects EXCEPT ![Head(children)].parent = parent],
                    Tail(children), parent)

\* BPlusTreeNode._checkSize() of the node `id`
RECURSIVE _checkSize(_, _)
_checkSize(tree, id) ==
    LET node == tree.objects[id]
        splitIndex == splitIndexOf(tree)
        kept == SubSeq(node.entries, 1, splitIndex)
        moveUpEntry == [node.entries[splitIndex + 1] EXCEPT !.ltChild = id]
        moveEntries == SubSeq(node.entries, splitIndex + 2, Len(node.entries))
        ltChild == node.entries[splitIndex + 1].ltChild
        gtChild == node.gtChild
        moved == [i \in DOMAIN moveEntries |-> moveEntries[i].ltChild] \o << gtChild >>
        split == [tree.objects EXCEPT ![id].entries = kept, ![id].gtChild = ltChild]
        newId == Len(tree.objects) + 1
        \* a new root over the node and its new sibling
        rootId == newId
        siblingUnderRoot == newId + 1
        withRoot ==
            setParents(
                [split EXCEPT ![id].parent = rootId]
                \o << MNode(MNull, << moveUpEntry >>, siblingUnderRoot),
                      MNode(rootId, moveEntries, gtChild) >>,
                moved, siblingUnderRoot)
        \* a new sibling under the parent of the node
        parent == tree.objects[node.parent]
        insertIndex == findIndexFrom(parent.entries,
                                     LAMBDA entry : _isMore(entry.key, moveUpEntry.key), 1)
        withSibling ==
            setParents(split \o << MNode(node.parent, moveEntries, gtChild) >>,
                       moved, newId)
        inParent ==
            IF insertIndex = 0
            THEN [withSibling EXCEPT ![node.parent].entries = Append(@, moveUpEntry),
                                     ![node.parent].gtChild = newId]
            ELSE [withSibling EXCEPT
                    ![node.parent].entries =
                        InsertAt([@ EXCEPT ![insertIndex].ltChild = newId],
                                 insertIndex, moveUpEntry)]
    IN
        IF Len(node.entries) <= tree.maxEntriesPerNode THEN tree
        ELSE IF node.parent = MNull
        THEN [tree EXCEPT !.objects = withRoot, !.root = rootId, !.depth = @ + 1]
        ELSE _checkSize([tree EXCEPT !.objects = inParent], node.parent)

\* BPlusTreeNode.insertKey(newKey, fromLeaf, newLeaf) of the node `id`
insertKey(tree, id, newKey, fromLeaf, newLeaf) ==
    LET node == tree.objects[id]
        insertIndex == findIndexFrom(node.entries,
                                     LAMBDA entry : entry.ltChild = fromLeaf, 1)
        inserted ==
            IF node.gtChild = fromLeaf
            THEN [tree.objects EXCEPT
                    ![id].entries = Append(@, MNodeEntry(newKey, fromLeaf)),
                    ![id].gtChild = newLeaf]
            ELSE [tree.objects EXCEPT
                    ![id].entries =
                        InsertAt([@ EXCEPT ![insertIndex].ltChild = newLeaf],
                                 insertIndex, MNodeEntry(newKey, fromLeaf))]
    IN
        IF findIndexFrom(node.entries, LAMBDA entry : _isEqual(entry.key, newKey), 1) > 0
        THEN [ err |-> "Key is already present in node", tree |-> tree ]
        ELSE IF node.gtChild # fromLeaf /\ insertIndex = 0
        THEN [ err |-> "TypeError: Cannot set property 'ltChild' of undefined",
               tree |-> tree ]
        ELSE [ err |-> NoError, tree |-> _checkSize([tree EXCEPT !.objects = inserted], id) ]

\* the linked list pointers once `id` has given its upper entries to newLeaf
linkAfter(objects, id, newLeaf) ==
    LET next == objects[id].nextLeaf
        linked == [objects EXCEPT ![newLeaf].prevLeaf = id, ![newLeaf].nextLeaf = next,
                                  ![id].nextLeaf = newLeaf]
    IN
        IF next = MNull THEN linked ELSE [linked EXCEPT ![next].prevLeaf = newLeaf]

\* the split of BPlusTreeLeaf.add: the leaf `id` holds `entries`, one too many
splitMLeaf(tree, id, entries) ==
    LET splitIndex == splitIndexOf(tree)
        kept == SubSeq(entries, 1, splitIndex)
        moveEntries == SubSeq(entries, splitIndex + 1, Len(entries))
        copyUpKey == moveEntries[1].key
        newId == Len(tree.objects) + 1
        \* the first parent node of the tree
        rooted == [tree.objects EXCEPT ![id].entries = kept, ![id].parent = newId]
                  \o << MNode(MNull, << MNodeEntry(copyUpKey, id) >>, newId + 1),
                        MLeaf(newId, moveEntries, MNull, MNull) >>
        \* a new leaf under the parent of the leaf
        parent == tree.objects[id].parent
        grown == [tree.objects EXCEPT ![id].entries = kept]
                 \o << MLeaf(parent, moveEntries, MNull, MNull) >>
        keyed == insertKey([tree EXCEPT !.objects = grown], parent, copyUpKey, id, newId)
    IN
        IF tree.objects[id].parent = TheTree
        THEN [ err |-> NoError,
               tree |-> [tree EXCEPT !.objects = linkAfter(rooted, id, newId + 1),
                                     !.root = newId, !.depth = 2] ]
        ELSE IF keyed.err # NoError THEN keyed
        ELSE [ err |-> NoError,
               tree |-> [keyed.tree EXCEPT !.objects = linkAfter(@, id, newId)] ]

\* BPlusTreeLeaf.add(key, recordPointer) of the leaf `id`
leafAdd(tree, id, key, recordPointer) ==
    LET leaf == tree.objects[id]
        entryIndex == findIndexFrom(leaf.entries, LAMBDA entry : _isEqual(entry.key, key), 1)
        insertIndex == findIndexFrom(leaf.entries, LAMBDA entry : _isMore(entry.key, key), 1)
        entries == IF insertIndex = 0 THEN Append(leaf.entries, MLeafEntry(key, << recordPointer >>))
                   ELSE InsertAt(leaf.entries, insertIndex, MLeafEntry(key, << recordPointer >>))
    IN
        IF entryIndex > 0
        THEN IF tree.uniqueKeys
             THEN [ err |-> "Cannot insert duplicate key", tree |-> tree ]
             ELSE [ err |-> NoError,
                    tree |-> [tree EXCEPT !.objects[id].entries[entryIndex].values =
                                              Append(@, recordPointer)] ]
        ELSE IF leaf.entries = << >> \/ Len(entries) <= tree.maxEntriesPerNode
        THEN [ err |-> NoError, tree |-> [tree EXCEPT !.objects[id].entries = entries] ]
        ELSE splitMLeaf(tree, id, entries)

\* BPlusTree.findLeaf(key): the place of the leaf, MNull when a child is missing
RECURSIVE mFindLeaf(_, _, _)
mFindLeaf(tree, id, key) ==
    LET node == tree.objects[id]
        i == findIndexFrom(node.entries, LAMBDA entry : _isLess(key, entry.key), 1)
    IN
        IF id = MNull THEN MNull
        ELSE IF node.isLeaf THEN id
        ELSE IF i > 0 THEN mFindLeaf(tree, node.entries[i].ltChild, key)
        ELSE mFindLeaf(tree, node.gtChild, key)

\* BPlusTree.add(key, value)
mAdd(tree, key, value) ==
    IF tree.objects[tree.root].isLeaf THEN leafAdd(tree, tree.root, key, value)
    ELSE leafAdd(tree, mFindLeaf(tree, tree.root, key), key, value)

\* BPlusTree.firstLeaf()
RECURSIVE mFirstLeafFrom(_, _)
mFirstLeafFrom(tree, id) ==
    IF tree.objects[id].isLeaf THEN id
    ELSE mFirstLeafFrom(tree, tree.objects[id].entries[1].ltChild)

firstLeaf(tree) == mFirstLeafFrom(tree, tree.root)

\* BPlusTree.lastLeaf(): the loop goes down the gtChild of every node to
\* the last leaf, and the function ends without a return statement
lastLeaf(tree) == MNull

keysOf(leaf) == [i \in DOMAIN leaf.entries |-> leaf.entries[i].key]

\* BPlusTree.all(): the keys of the leaves from the first along nextLeaf
RECURSIVE allFrom(_, _)
allFrom(tree, leaf) ==
    IF leaf = MNull THEN << >>
    ELSE keysOf(tree.objects[leaf]) \o allFrom(tree, tree.objects[leaf].nextLeaf)

all(tree) == allFrom(tree, firstLeaf(tree))

\* BPlusTree.reverseAll(): the keys of the leaves from lastLeaf() along
\* prevLeaf, those of one leaf in the order of the leaf
RECURSIVE reverseAllFrom(_, _)
reverseAllFrom(tree, leaf) ==
    IF leaf = MNull THEN << >>
    ELSE keysOf(tree.objects[leaf]) \o reverseAllFrom(tree, tree.objects[leaf].prevLeaf)

reverseAll(tree) == reverseAllFrom(tree, lastLeaf(tree))

\* BPlusTreeBuilder.create(maxEntries) over the sorted list of the keys
\* added to the builder.  The leaves are objects 1..nrOfLeafs, the parent
\* nodes of a level follow the objects of the level below; prevNode and
\* nextNode of a node are its neighbours in its level.  maxEntries is 2 or
\* more: every node the loops below read entries of has one.
builderEntriesPerLeaf(entriesPerNode, fillFactor) ==
    Max(3, (entriesPerNode * fillFactor) \div 100)

builderLeaves(list, uniqueKeys, entriesPerLeaf, nrOfLeafs) ==
    [i \in 1..nrOfLeafs |->
        MLeaf(MNull,
              [j \in 1..Min(entriesPerLeaf, Len(list) - (i - 1) * entriesPerLeaf) |->
                  MLeafEntry(list[(i - 1) * entriesPerLeaf + j].key,
                             IF uniqueKeys THEN << list[(i - 1) * entriesPerLeaf + j].val >>
                             ELSE list[(i - 1) * entriesPerLeaf + j].val)],
              IF i > 1 THEN i - 1 ELSE MNull,
              IF i < nrOfLeafs THEN i + 1 ELSE MNull)]

\* the first leaf under a node, down the ltChild of its first entries
RECURSIVE leftmostLeaf(_, _)
leftmostLeaf(objects, id) ==
    IF objects[id].isLeaf THEN id
    ELSE leftmostLeaf(objects, objects[id].entries[1].ltChild)

\* one turn of the loop that moves a parent entry of prevParent to parent.
\* Over leaves the entry is keyed by the first key of firstChild; over
\* nodes by ltChild.key, ltChild being a leaf, which has no key
moveParentEntry(objects, parent, prevParent, child, creatingLeafs) ==
    LET firstChild == IF objects[parent].entries = << >> THEN child
                      ELSE objects[parent].entries[1].ltChild
        moveEntry == objects[prevParent].entries[Len(objects[prevParent].entries)]
        moveLeaf == objects[prevParent].gtChild
        key == IF creatingLeafs THEN objects[firstChild].entries[1].key ELSE KUndefined
    IN
        [objects EXCEPT
            ![prevParent].entries = SubSeq(@, 1, Len(@) - 1),
            ![prevParent].gtChild = moveEntry.ltChild,
            ![moveLeaf].parent = parent,
            ![parent].entries = << MNodeEntry(key, moveLeaf) >> \o @]

RECURSIVE moveParentEntries(_, _, _, _, _, _)
moveParentEntries(objects, parent, prevParent, child, creatingLeafs, nrOfParentEntries2Move) ==
    IF nrOfParentEntries2Move <= 0 THEN objects
    ELSE moveParentEntries(
            moveParentEntry(objects, parent, prevParent, child, creatingLeafs),
            parent, prevParent, child, creatingLeafs, nrOfParentEntries2Move - 1)

\* the body of the loop over the nodes of a level, for the node at place
\* i (from 0) of nodesAtLevel; the parent nodes are the objects after base
builderChild(objects, list, level, i) ==
    LET parentIndex == i \div level.parentConnections
        parent == level.base + parentIndex + 1
        child == level.nodesAtLevel[i + 1]
        placed == [objects EXCEPT ![child].parent = parent]
        isLast == \/ (i + 1) \div level.parentConnections > parentIndex
                  \/ i = Len(level.nodesAtLevel) - 1
        ltChildKey ==
            IF level.creatingLeafs
            THEN list[i * level.entriesPerLeaf + level.entriesPerLeaf + 1].key
            ELSE objects[leftmostLeaf(objects, level.nodesAtLevel[i + 2])].entries[1].key
        closed == [placed EXCEPT ![parent].gtChild = child]
    IN
        IF ~isLast
        THEN [placed EXCEPT ![parent].entries = Append(@, MNodeEntry(ltChildKey, child))]
        ELSE IF level.nrOfParentNodes > 1
                /\ Len(closed[parent].entries) < level.minParentEntries
        THEN moveParentEntries(closed, parent, parent - 1, child, level.creatingLeafs,
                               level.minParentEntries - Len(closed[parent].entries))
        ELSE closed

RECURSIVE builderChildren(_, _, _, _)
builderChildren(objects, list, level, i) ==
    IF i >= Len(level.nodesAtLevel) THEN objects
    ELSE builderChildren(builderChild(objects, list, level, i), list, level, i + 1)

\* the while loop of create from one level on
RECURSIVE builderLevels(_, _, _, _)
builderLevels(tree, list, sizes, nodesAtLevel) ==
    LET nrOfParentNodes == CeilDiv(Len(nodesAtLevel), sizes.parentConnections)
        level == [ base |-> Len(tree.objects), nodesAtLevel |-> nodesAtLevel,
                   nrOfParentNodes |-> nrOfParentNodes,
                   parentConnections |-> sizes.parentConnections,
                   minParentEntries |-> sizes.minParentEntries,
                   entriesPerLeaf |-> sizes.entriesPerLeaf,
                   creatingLeafs |-> sizes.currentLevel = 1 ]
        parentNodes == [p \in 1..nrOfParentNodes |-> Len(tree.objects) + p]
        objects == builderChildren(
                       tree.objects \o [p \in 1..nrOfParentNodes |-> MNode(MNull, << >>, MNull)],
                       list, level, 0)
    IN
        IF sizes.nrOfLeafs = 1
        THEN [tree EXCEPT !.objects = [objects EXCEPT ![1].parent = TheTree], !.root = 1]
        ELSE IF nrOfParentNodes = 1
        THEN [tree EXCEPT !.objects = objects, !.root = parentNodes[1]]
        ELSE builderLevels([tree EXCEPT !.objects = objects, !.depth = @ + 1], list,
                           [sizes EXCEPT !.currentLevel = @ + 1], parentNodes)

\* the entriesPerNode of create: maxEntries, or for none (0) a tenth of
\* the list between 3 and 255
builderEntriesPerNode(list, maxEntries) ==
    IF maxEntries # 0 THEN maxEntries ELSE Min(255, Max(3, CeilDiv(Len(list), 10)))

\* builder.create(maxEntries) of a builder of fill factor fillFactor that
\* was given the keys of list
builderCreate(list, uniqueKeys, fillFactor, maxEntries) ==
    LET entriesPerNode == builderEntriesPerNode(list, maxEntries)
        entriesPerLeaf == builderEntriesPerLeaf(entriesPerNode, fillFactor)
        nrOfLeafs == Max(1, CeilDiv(Len(list), entriesPerLeaf))
    IN
        builderLevels(
            [BPlusTree(entriesPerNode, uniqueKeys) EXCEPT
                !.fillFactor = fillFactor,
                !.objects = builderLeaves(list, uniqueKeys, entriesPerLeaf, nrOfLeafs)],
            list,
            [ entriesPerLeaf |-> entriesPerLeaf, nrOfLeafs |-> nrOfLeafs,
              minParentEntries |-> Max(1, entriesPerNode \div 2),
              parentConnections |-> entriesPerNode + 1, currentLevel |-> 1 ],
            [i \in 1..nrOfLeafs |-> i])

\* the bytes of one entry in BPlusTreeLeaf.toBinary, its values being
\* short enough to stay in the leaf (MAX_SMALL_LEAF_VALUE_LENGTH)
leafEntryToBinary(uniqueKeys, entry) ==
    LET valueBytes == IF uniqueKeys THEN getLeafEntryValueBytes(entry.values[1])
                      ELSE ValuesBytes(entry.values)
    IN
        getKeyBytes(entry.key) \o << Len(valueBytes) >>
        \o _writeByteLength(Len(entry.values)) \o valueBytes

RECURSIVE leafEntriesToBinary(_, _)
leafEntriesToBinary(uniqueKeys, entries) ==
    IF entries = << >> THEN << >>
    ELSE leafEntryToBinary(uniqueKeys, Head(entries))
         \o leafEntriesToBinary(uniqueKeys, Tail(entries))

\* BPlusTreeLeaf.toBinary(keepFreeSpace, writer) of a leaf without
\* neighbours and without ext_data: the bytes it appends
leafToBinary(tree, leaf, keepFreeSpace) ==
    LET entriesBytes == leafEntriesToBinary(tree.uniqueKeys, leaf.entries)
        \* bytes.length - entriesStartIndex, the latter counted with the
        \* eight bytes of the ext_data lengths that are removed further on
        avgBytesPerEntry == CeilDiv(Len(entriesBytes), Len(leaf.entries))
        availableEntries == tree.maxEntriesPerNode - Len(leaf.entries)
        freeBytesLength == IF keepFreeSpace /\ Len(leaf.entries) > 0
                           THEN CeilTimes11(availableEntries * avgBytesPerEntry)
                           ELSE 0
        totalLeafSize == 22 + Len(entriesBytes) + Max(0, freeBytesLength)
    IN
        _writeByteLength(totalLeafSize) \o << FLAG_IS_LEAF >>
        \o _writeByteLength(freeBytesLength) \o Zeroes(6) \o Zeroes(6)
        \o << Len(leaf.entries) >> \o entriesBytes \o Zeroes(freeBytesLength)

\* BPlusTree.toBinary(keepFreeSpace, writer) of a tree whose root is a
\* leaf: what the writer holds in the end
toBinary(tree, keepFreeSpace) ==
    LET indexTypeFlags == (IF tree.uniqueKeys THEN FLAG_UNIQUE_KEYS ELSE 0)
                          + (IF keepFreeSpace THEN FLAG_HAS_FREE_SPACE ELSE 0)
                          + FLAG_HAS_FILL_FACTOR + FLAG_HAS_SMALL_LEAFS + FLAG_HAS_LARGE_PTRS
        headerLength == IF keepFreeSpace THEN 11 ELSE 7
        leafBytes == leafToBinary(tree, tree.objects[tree.root], keepFreeSpace)
        freeSpaceLength == IF keepFreeSpace THEN CeilTimes01(Len(leafBytes)) ELSE 0
    IN
        _writeByteLength(headerLength + Len(leafBytes) + freeSpaceLength)
        \o << indexTypeFlags, tree.maxEntriesPerNode, tree.fillFactor >>
        \o (IF keepFreeSpace THEN _writeByteLength(freeSpaceLength) ELSE << >>)
        \o leafBytes \o Zeroes(freeSpaceLength)

\* ---------------------------------------------------------------------
\* class TX: the steps queued, and what execute does with them
\* ---------------------------------------------------------------------
\* new TX(): nothing queued, nothing executed.  events lists what has
\* happened, oldest first: the call of a step's action, the action
\* resolved or rejected, the call of a step's rollback
\* an error a TX meets, by where it comes from: "action" is what the
\* action of a step rejects with, "rollback" what the promise of the
\* rollback of a step rejects with, "thrown" what the rollback of a step
\* throws when called, "TypeError" the call of a rollback that is no
\* function
TXError(kind, step) == [ kind |-> kind, step |-> step ]
NoTXError == TXError("none", 0)

\* err is what execute rejects with and rollbackError the rollbackError
\* property of that error; thrown and rejecting are what the rollbacks
\* called by one catch threw and rejected with
NewTX ==
    [ mode |-> "new", queue |-> << >>, shifted |-> 0, pending |-> { }, catching |-> 0,
      events |-> << >>, settled |-> "pending", err |-> NoTXError,
      rollbackError |-> NoTXError, thrown |-> NoTXError, rejecting |-> NoTXError ]

TXEvent(e, step) == [ e |-> e, step |-> step ]

\* what a rollback does when it is called: it returns a promise that
\* resolves or one that rejects, or it throws
RollbackDoes == { "resolves", "rejects", "throws" }

\* tx.queue(step): state 'idle'; hasRollback tells whether step.rollback
\* is a function, rollbackDoes what that function does
queueStep(t, hasRollback, rollbackDoes) ==
    [t EXCEPT !.queue = Append(@, [ rollback |-> hasRollback,
                                    does |-> IF hasRollback THEN rollbackDoes ELSE "nothing",
                                    state |-> "idle" ])]

\* the events of the calls of the actions of the steps first..last
RECURSIVE actionCalls(_, _)
actionCalls(first, last) ==
    IF first > last THEN << >>
    ELSE << TXEvent("action", first) >> \o actionCalls(first + 1, last)

\* next(prevResult), alias runSteps, of the sequential execute: the step shifted from the
\* queue has its rollback pushed and its action called; without a step,
\* execute resolves
runSteps(t) ==
    IF t.shifted = Len(t.queue) THEN [t EXCEPT !.settled = "resolved"]
    ELSE [t EXCEPT !.shifted = @ + 1,
                   !.pending = { t.shifted + 1 },
                   !.events = Append(@, TXEvent("action", t.shifted + 1))]

\* execute(parallel)
execute(t, parallel) ==
    IF ~parallel THEN runSteps([t EXCEPT !.mode = "sequential"])
    ELSE [t EXCEPT !.mode = "parallel",
                   !.pending = DOMAIN t.queue,
                   !.events = @ \o actionCalls(1, Len(t.queue)),
                   !.settled = IF t.queue = << >> THEN "resolved" ELSE "pending"]

\* the call step.rollback() of step i inside a map: the call is an event;
\* the first promise to reject is taken to be that of the first rollback
\* called
rollbackCalled(t, i) ==
    [t EXCEPT !.events = Append(@, TXEvent("rollback", i)),
              !.thrown = IF t.queue[i].does = "throws" THEN TXError("thrown", i) ELSE @,
              !.rejecting = IF t.queue[i].does = "rejects" /\ @ = NoTXError
                            THEN TXError("rollback", i) ELSE @]

\* rollbackSteps.map(step => step()) of the sequential execute, from the
\* i-th rollback pushed on: a rollback that is no function throws a
\* TypeError, and what a call throws ends the map
RECURSIVE callRollbacks(_, _)
callRollbacks(t, i) ==
    IF i > t.shifted \/ t.thrown # NoTXError THEN t
    ELSE IF ~t.queue[i].rollback
    THEN [t EXCEPT !.thrown = TXError("TypeError", i)]
    ELSE callRollbacks(rollbackCalled(t, i), i + 1)

\* this._queue.map(step => step.state === 'failed' || typeof step.rollback
\* !== 'function' ? null : step.rollback()) of the parallel execute
RECURSIVE rollbackQueue(_, _)
rollbackQueue(t, i) ==
    IF i > Len(t.queue) \/ t.thrown # NoTXError THEN t
    ELSE IF t.queue[i].state = "failed" \/ ~t.queue[i].rollback
    THEN rollbackQueue(t, i + 1)
    ELSE rollbackQueue(rollbackCalled(t, i), i + 1)

\* a catch of execute gets err: before it calls the rollbacks
catching(t, err) ==
    [t EXCEPT !.err = err, !.thrown = NoTXError, !.rejecting = NoTXError]

\* the rest of a catch of execute, the rollbacks called: what the map
\* threw leaves the catch as it is; else Promise.all(rollbacks) settles,
\* and either its then throws err, which its own catch gets as err2, or
\* its catch gets the rejection of a rollback: err.rollbackError = err2;
\* throw err
rolledBack(t) ==
    IF t.thrown # NoTXError
    THEN [t EXCEPT !.err = t.thrown, !.rollbackError = NoTXError]
    ELSE [t EXCEPT !.rollbackError = IF t.rejecting # NoTXError THEN t.rejecting
                                     ELSE t.err]

\* the action of step i resolves
actionResolved(t, i) ==
    LET done == [t EXCEPT !.pending = @ \ { i },
                          !.events = Append(@, TXEvent("resolved", i))]
    IN  IF t.mode = "sequential" THEN runSteps(done)
        ELSE [done EXCEPT !.queue[i].state = "success",
                          !.settled = IF t.settled = "pending" /\ done.pending = { }
                                      THEN "resolved" ELSE t.settled]

\* the action of step i rejects: the catch of the sequential step calls
\* the rollbacks pushed so far, and the catch of every step before it is
\* still to come; Promise.all of the parallel actions rejects with the
\* first rejection, and its catch calls the rollbacks
actionRejected(t, i) ==
    LET done == [t EXCEPT !.pending = @ \ { i },
                          !.events = Append(@, TXEvent("rejected", i))]
    IN  IF t.mode = "sequential"
        THEN [rolledBack(callRollbacks(catching(done, TXError("action", i)), 1)) EXCEPT
                !.catching = i - 1,
                !.settled = IF i = 1 THEN "rejected" ELSE "pending"]
        ELSE IF t.settled # "pending" THEN [done EXCEPT !.queue[i].state = "failed"]
        ELSE [rolledBack(rollbackQueue(catching([done EXCEPT !.queue[i].state = "failed"],
                                                TXError("action", i)), 1)) EXCEPT
                !.settled = "rejected"]

\* the catch of an earlier sequential step gets the error thrown by the
\* catch of the step after it, and calls the rollbacks again
caught(t) ==
    [rolledBack(callRollbacks(catching(t, t.err), 1)) EXCEPT
        !.catching = @ - 1,
        !.settled = IF t.catching = 1 THEN "rejected" ELSE "pending"]

\* ---------------------------------------------------------------------
\* The state machine: one tree object over its byte array, its operations
\* called one at a time
\* ---------------------------------------------------------------------
VARIABLES
    disk,                \* the byte array the tree reads and writes
    fst,                 \* tree._fst: the reclaimed blocks
    originalByteLength,  \* tree._originalByteLength
    autoGrow,            \* tree.autoGrow
    last,                \* the last operation called and how it settled
    history,             \* the operations called so far, oldest first, each
                         \* with the byte array it was called on
    pc,                  \* where each caller of a concurrent operation is
    request,             \* the operation each caller has called
    held,                \* the leaf findLeaf has given each caller
    waiters,             \* the callers of ThreadSafe.lock(tree.id), the holder first
    writer,              \* the BinaryWriter: the bytes the last rebuild wrote to it,
                         \* or the state of the stream of BinaryWriter.forFunction
    memTree,             \* a BPlusTree held in memory
    locked,              \* the leaves (their indexes) whose ThreadSafe.lock is held
    tx,                  \* a TX object: its queue and what has happened to its steps
    cache                \* a NodeCache: its entries, and the time of Date.now()

vars == << disk, fst, originalByteLength, autoGrow, last, history, pc, request, held,
           waiters, writer, memTree, locked, tx, cache >>

\* the callers of concurrent operations
Callers == { 1, 2 }

\* Date.now() when the NodeCache is constructed, and no timer (null)
StartTime == 1
NoTimer == -1

\* new NodeCache(): no entries (path -> NodeCacheEntry) and no cleanup timer
NoCache == [ entries |-> << >>, _cleanupTimeout |-> NoTimer, now |-> StartTime ]

\* the callers, none of which has called anything
NoCallers ==
    /\ pc = [p \in Callers |-> "idle"]
    /\ request = [p \in Callers |-> [ op |-> "none", key |-> KUndefined,
                                      recordPointer |-> << >> ]]
    /\ held = [p \in Callers |-> FailedLeaf(NoError)]
    /\ waiters = << >>

\* number of operations called so far
calls == Len(history)

\* number of operations called on one tree
MaxCalls == 2

\* maxEntriesPerNode of the trees (the default of BinaryBPlusTreeBuilder)
MaxEntriesPerNode == 3

\* the string key of n characters c
Str(c, n) == << KEY_TYPE_STRING >> \o [i \in 1..n |-> c]

\* length of the key that outgrows a leaf but fits the leaf grown by 10%,
\* and of the key that fits neither
MediumKeyLength == 8
LongKeyLength == 24

KeyA == Str(97, 1)
KeyB == Str(98, 1)
KeyD == Str(100, 1)
KeyF == Str(102, 1)
KeyG == Str(103, 1)
KeyH == Str(104, 1)
KeyI == Str(105, 1)
KeyM == Str(109, MediumKeyLength)
KeyZ == Str(122, LongKeyLength)

\* record pointers: two short ones, and one whose value bytes alone exceed
\* MAX_SMALL_LEAF_VALUE_LENGTH
BigPointerLength == 127
RP1 == << 1 >>
RP2 == << 2 >>
RP3 == << 3 >>
RPBig == [i \in 1..BigPointerLength |-> 9]

Keys == { KeyA, KeyB, KeyG, KeyH, KeyI, KeyM, KeyZ }
RecordPointers == { RP1, RP2, RPBig }

E(key, values) == [ key |-> key, values |-> values ]

\* the entry lists the trees are created from: two leafs of two entries
\* (a fill factor of 67 percent), the second leaf with or without a key
\* whose values lie in ext_data
PlainLeafs == << << E(KeyB, << RP1 >>), E(KeyD, << RP1 >>) >>,
                 << E(KeyF, << RP1 >>), E(KeyH, << RP1 >>) >> >>
ExtLeafs == << << E(KeyB, << RP1 >>), E(KeyD, << RP1 >>) >>,
               << E(KeyF, << RP1 >>), E(KeyH, << RPBig, RP1 >>) >> >>

\* allocatedBytes of create: 0 leaves the tenth of the tree as free tail
InitAllocatedBytes == { 0, 640 }
InitFillFactor == 67

\* the operations lists transaction is called with
Transactions ==
    { << OpAdd(KeyG, RP1), OpAdd(KeyI, RP2), OpAdd(KeyG, RP3) >>,
      << OpAdd(KeyG, RP1), OpAdd(KeyI, RP2), OpAdd(KeyG, RPBig) >>,
      << OpAdd(KeyI, RP1), OpRemove(KeyI, RP1) >>,
      << OpAdd(KeyH, RP2), OpRemove(KeyH, RP2) >>,
      << OpAdd(KeyA, RP1), OpAdd(KeyB, RP1), OpAdd(KeyG, RP1) >> }

Settled(op, key, recordPointer, r, given, operations, started) ==
    [ op |-> op, key |-> key, recordPointer |-> recordPointer, err |-> r.err,
      given |-> given, operations |-> operations, started |-> started ]

Init ==
    \E isUnique \in BOOLEAN, allocatedBytes \in InitAllocatedBytes,
       leafs \in { PlainLeafs, ExtLeafs } :
        /\ ~(isUnique /\ leafs = ExtLeafs)
        /\ disk = create(isUnique, MaxEntriesPerNode, InitFillFactor, allocatedBytes, leafs)
        /\ fst = << >>
        /\ originalByteLength = _readByteLength(disk, 0)
        /\ autoGrow = FALSE
        /\ last = Settled("none", KUndefined, << >>, [ err |-> NoError ], << >>, << >>, 0)
        /\ history = << >>
        /\ writer = << >>
        /\ locked = { }
        /\ tx = NewTX
        /\ memTree = BPlusTree(MaxEntriesPerNode, FALSE)
        /\ NoCallers
        /\ cache = NoCache

Memory == [ disk |-> disk, fst |-> fst ]
Tree == [ originalByteLength |-> originalByteLength, autoGrow |-> autoGrow ]
Picks == 1..Max(1, Len(fst))

\* an operation settles with r: the memory it leaves, the count of the
\* call, and what the caller is given
Settles(op, key, recordPointer, r) ==
    /\ disk' = r.st.disk
    /\ fst' = r.st.fst
    /\ last' = Settled(op, key, recordPointer, r, r.given, r.operations, r.started)
    /\ history' = Append(history, [ call |-> last', disk |-> disk, fst |-> fst ])
    /\ UNCHANGED << cache, originalByteLength, autoGrow, writer, memTree, locked, tx >>

\* an operation called when no other is in progress settles with r
SettlesAlone(op, key, recordPointer, r) ==
    /\ Settles(op, key, recordPointer, r)
    /\ UNCHANGED << cache, pc, request, held, waiters >>

\* the result of an operation that is no transaction
NoTransaction(r) ==
    [ err |-> r.err, st |-> r.st, given |-> << >>, operations |-> << >>, started |-> 0 ]

\* the result of a transaction, with the operations it was given
OfTransaction(given, r) ==
    [ err |-> r.err, st |-> r.st, given |-> given, operations |-> r.operations,
      started |-> r.started ]

Add(key, recordPointer) ==
    /\ calls < MaxCalls
    /\ waiters = << >>
    /\ \E pick \in Picks :
        SettlesAlone("add", key, recordPointer,
                NoTransaction(add(Memory, Tree, key, recordPointer, pick)))

\* remove(key, recordPointer)
Remove(key, recordPointer) ==
    /\ calls < MaxCalls
    /\ SettlesAlone("remove", key, recordPointer,
            NoTransaction(remove(Memory, key, TRUE, recordPointer)))

\* remove(key)
RemoveKey(key) ==
    /\ calls < MaxCalls
    /\ SettlesAlone("remove key", key, << >>, NoTransaction(remove(Memory, key, FALSE, << >>)))

\* update(key, newRecordPointer, currentRecordPointer)
Update(key, newRecordPointer, currentRecordPointer) ==
    /\ calls < MaxCalls
    /\ SettlesAlone("update", key, newRecordPointer,
            NoTransaction(update(Memory, key, newRecordPointer, TRUE,
                                 currentRecordPointer)))

Transaction(operations) ==
    /\ calls < MaxCalls
    /\ waiters = << >>
    /\ \E pick \in Picks :
        SettlesAlone("transaction", KUndefined, << >>,
                OfTransaction(operations, transaction(Memory, Tree, operations, 0, pick)))

\* the entry of key as findLeaf gives it, and whether it is an ext_data entry
EntryAt(key, leaf, i) ==
    [ found |-> leaf.err = NoError /\ i > 0 /\ leaf.entries[i].ext,
      entry |-> IF leaf.err = NoError /\ i > 0 THEN leaf.entries[i]
                ELSE NewLeafEntry(key, << >>) ]

\* the entry of key as findLeaf gives it, and whether it is an ext_data entry
EntryIn(key, leaf) == EntryAt(key, leaf, findEntryIndex(leaf.entries, key))

EntryOf(key) == EntryIn(key, findLeaf(disk, key))

\* entry.extData.addValue(recordPointer) on the entry of key
ExtAddValueTo(key, recordPointer, found) ==
    /\ found.found
    /\ SettlesAlone("addValue", key, recordPointer,
               NoTransaction(addValue(Memory, found.entry, recordPointer)))

ExtAddValue(key, recordPointer) ==
    /\ calls < MaxCalls
    /\ ExtAddValueTo(key, recordPointer, EntryOf(key))

\* entry.extData.removeValue(recordPointer) on the entry of key
ExtRemoveValueFrom(key, recordPointer, found) ==
    /\ found.found
    /\ SettlesAlone("removeValue", key, recordPointer,
               NoTransaction(removeValue(Memory, found.entry, recordPointer)))

ExtRemoveValue(key, recordPointer) ==
    /\ calls < MaxCalls
    /\ ExtRemoveValueFrom(key, recordPointer, EntryOf(key))

Next ==
    \/ \E key \in Keys, recordPointer \in RecordPointers : Add(key, recordPointer)
    \/ \E key \in Keys, recordPointer \in { RP1, RP2 } : Remove(key, recordPointer)
    \/ \E key \in Keys : RemoveKey(key)
    \/ \E key \in { KeyB, KeyH, KeyI } : Update(key, RP2, RP1)
    \/ \E operations \in Transactions : Transaction(operations)
    \/ \E key \in Keys, recordPointer \in RecordPointers : ExtAddValue(key, recordPointer)
    \/ \E key \in Keys, recordPointer \in RecordPointers : ExtRemoveValue(key, recordPointer)

Spec == Init /\ [][Next]_vars

\* ---------------------------------------------------------------------
\* Operations called while another is in progress.  An operation is
\* suspended at every read of the byte source, so another one can run
\* between its findLeaf and the write that follows.  add takes the lock
\* of the tree id first; remove and update call findLeaf at once.
\* ---------------------------------------------------------------------
\* the operations the callers call (update: of RP1 to the record pointer)
Requests ==
    { [ op |-> "add", key |-> KeyI, recordPointer |-> RP1 ],
      [ op |-> "add", key |-> KeyG, recordPointer |-> RP2 ],
      [ op |-> "remove key", key |-> KeyH, recordPointer |-> << >> ],
      [ op |-> "remove", key |-> KeyB, recordPointer |-> RP1 ],
      [ op |-> "update", key |-> KeyH, recordPointer |-> RP2 ] }

\* add as it would be without ThreadSafe.lock(this.id): findLeaf is
\* called at once
CallAddUnlocked(p, r) ==
    /\ pc[p] = "idle"
    /\ r.op = "add"
    /\ request' = [request EXCEPT ![p] = r]
    /\ pc' = [pc EXCEPT ![p] = "findLeaf"]
    /\ UNCHANGED << cache, tx, locked, memTree, writer, disk, fst, originalByteLength, autoGrow, last, history, held, waiters >>

\* ThreadSafe.lock(this.id) of add: the caller waits for the lock
CallAdd(p, r) ==
    /\ pc[p] = "idle"
    /\ r.op = "add"
    /\ request' = [request EXCEPT ![p] = r]
    /\ waiters' = Append(waiters, p)
    /\ pc' = [pc EXCEPT ![p] = "lock"]
    /\ UNCHANGED << cache, tx, locked, memTree, writer, disk, fst, originalByteLength, autoGrow, last, history, held >>

\* the lock is given to the callers in the order they asked for it
Locked(p) ==
    /\ pc[p] = "lock"
    /\ Head(waiters) = p
    /\ pc' = [pc EXCEPT ![p] = "findLeaf"]
    /\ UNCHANGED << cache, tx, locked, memTree, writer, disk, fst, originalByteLength, autoGrow, last, history, request, held,
                    waiters >>

\* remove and update: findLeaf is called at once
CallUnlocked(p, r) ==
    /\ pc[p] = "idle"
    /\ r.op # "add"
    /\ request' = [request EXCEPT ![p] = r]
    /\ pc' = [pc EXCEPT ![p] = "findLeaf"]
    /\ UNCHANGED << cache, tx, locked, memTree, writer, disk, fst, originalByteLength, autoGrow, last, history, held, waiters >>

\* findLeaf(key) settles with the leaf as the bytes are now
FoundLeaf(p) ==
    /\ pc[p] = "findLeaf"
    /\ held' = [held EXCEPT ![p] = findLeaf(disk, request[p].key)]
    /\ pc' = [pc EXCEPT ![p] = "write"]
    /\ UNCHANGED << cache, tx, locked, memTree, writer, disk, fst, originalByteLength, autoGrow, last, history, request,
                    waiters >>

\* the rest of add on the leaf it was given, and lock.release()
AddSettles(p) ==
    /\ pc[p] = "write"
    /\ request[p].op = "add"
    /\ \E pick \in Picks :
        Settles("add", request[p].key, request[p].recordPointer,
                NoTransaction(addToLeaf(Memory, Tree, request[p].key,
                                        request[p].recordPointer, pick, held[p])))
    /\ waiters' = Tail(waiters)
    /\ pc' = [pc EXCEPT ![p] = "done"]
    /\ UNCHANGED << cache, request, held >>

\* the rest of remove on the leaf it was given
RemoveSettles(p) ==
    /\ pc[p] = "write"
    /\ request[p].op \in { "remove", "remove key" }
    /\ Settles(request[p].op, request[p].key, request[p].recordPointer,
               NoTransaction(removeFromLeaf(Memory, request[p].key,
                                            request[p].op = "remove",
                                            request[p].recordPointer, held[p])))
    /\ pc' = [pc EXCEPT ![p] = "done"]
    /\ UNCHANGED << cache, request, held, waiters >>

\* the rest of update on the leaf it was given
UpdateSettles(p) ==
    /\ pc[p] = "write"
    /\ request[p].op = "update"
    /\ Settles("update", request[p].key, request[p].recordPointer,
               NoTransaction(updateInLeaf(Memory, request[p].key,
                                          request[p].recordPointer, TRUE, RP1, held[p])))
    /\ pc' = [pc EXCEPT ![p] = "done"]
    /\ UNCHANGED << cache, request, held, waiters >>

ConcurrentNext ==
    \/ \E p \in Callers, r \in Requests : CallAdd(p, r)
    \/ \E p \in Callers : Locked(p)
    \/ \E p \in Callers, r \in Requests : CallUnlocked(p, r)
    \/ \E p \in Callers : FoundLeaf(p)
    \/ \E p \in Callers : AddSettles(p)
    \/ \E p \in Callers : RemoveSettles(p)
    \/ \E p \in Callers : UpdateSettles(p)

ConcurrentSpec == Init /\ [][ConcurrentNext]_vars

\* a caller is between its findLeaf and its last write
InProgress(p) == pc[p] = "write"

\* a caller holds the lock of the tree id
HoldsLock(p) == pc[p] \in { "findLeaf", "write" } /\ waiters # << >> /\ Head(waiters) = p

\* C2: add, remove and update serialize on the lock of the tree id: each
\* holds the lock from before its findLeaf until after its last write, so
\* no two of them are between their reads and their writes at once
C2_MutationsSerialized ==
    /\ \A p \in Callers : pc[p] \in { "findLeaf", "write" } => HoldsLock(p)
    /\ \A p, q \in Callers : (p # q /\ InProgress(p)) => ~InProgress(q)

\* of two callers between findLeaf and write, the one that writes last
\* writes the leaf it read before the other wrote: both settle without an
\* error and the key the first one added is not found
C2_LostAdd ==
    ~(/\ calls = 2
      /\ history[1].call.op = "add" /\ history[1].call.err = NoError
      /\ history[2].call.op # "add" /\ history[2].call.err = NoError
      /\ ~find(disk, history[1].call.key).found)



\* ---------------------------------------------------------------------
\* Failure atomicity
\* ---------------------------------------------------------------------
\* the positions of the free byte length in the header
FreeSpaceField(data) ==
    IF _getReader(data).hasFreeSpace
    THEN _getReader(data).freeSpaceIndex .. (_getReader(data).freeSpaceIndex + 3)
    ELSE { }

\* the positions the allocator has to give away: the free bytes at the
\* end of the byte array and the blocks of _fst
FreePositions(data, blocks) ==
    ((_getReader(data).byteLength - _getReader(data).freeSpace) .. (Len(data) - 1))
    \cup UNION { blocks[b].index .. (blocks[b].index + blocks[b].length - 1) :
                 b \in DOMAIN blocks }

\* the positions of the header and of the records: all but the allocator's
RecordPositions(data, blocks) ==
    (0 .. (Len(data) - 1)) \ (FreeSpaceField(data) \cup FreePositions(data, blocks))

\* the header and the records of `before` hold the same bytes in `after`
SameRecords(before, blocks, after) ==
    \A i \in RecordPositions(before, blocks) : At(after, i) = At(before, i)

\* the operations of the tree that change it
Mutations == { "add", "remove", "remove key", "update" }

\* the call that settled last, with the byte array it was called on
LastCall == history[Len(history)]

\* C1: an add, remove or update that rejects (in the call itself, in the
\* rebuild or in the split of the leaf) leaves the header and every record
\* with the bytes they had before the call
C1_FailedMutationLeavesBytes ==
    (history # << >> /\ last.op \in Mutations /\ last.err # NoError)
        => SameRecords(LastCall.disk, LastCall.fst, disk)

\* ---------------------------------------------------------------------
\* The structure of the tree as its reader gives it
\* ---------------------------------------------------------------------
\* processChild of getFirstLeaf: the lt child of the first entry, down to
\* a leaf
RECURSIVE firstLeafFrom(_, _, _, _)
firstLeafFrom(data, info, nodeInfo, fuel) ==
    IF nodeInfo.isLeaf THEN _getLeaf(info, nodeInfo)
    ELSE IF fuel = 0 THEN FailedLeaf("never settles")
    ELSE IF _getNode(nodeInfo).err # NoError THEN FailedLeaf(_getNode(nodeInfo).err)
    ELSE IF _getNode(nodeInfo).entries = << >>
    THEN FailedLeaf("TypeError: Cannot read property 'getLtChild' of undefined")
    ELSE firstLeafFrom(data, info,
            _readChild(data, _getNode(nodeInfo).entries[1].ltChildIndex), fuel - 1)

\* BinaryBPlusTree.getFirstLeaf()
getFirstLeaf(data) ==
    firstLeafFrom(data, _getReader(data), _readChild(data, _getReader(data).headerLength),
                  MaxDescent)

\* the longest chain of leaves followed; a longer one can only be a cycle
\* of next pointers
MaxChain == 8

\* the leaves met from `leaf` on by leaf.getNext(), in that order
RECURSIVE chainFrom(_, _, _)
chainFrom(data, leaf, fuel) ==
    IF leaf.err # NoError \/ nextLeafIndex(leaf) = 0 \/ fuel = 0 THEN << leaf >>
    ELSE << leaf >> \o chainFrom(data, getNext(data, leaf), fuel - 1)

LeafChain(data) == chainFrom(data, getFirstLeaf(data), MaxChain)

\* the children of a node in key order: the lt child of every entry, then
\* the gt child
ChildIndexes(node) ==
    [i \in 1..Len(node.entries) |-> node.entries[i].ltChildIndex] \o << node.gtChildIndex >>

\* the leaves under the record at nodeInfo, in key order
RECURSIVE leavesUnder(_, _, _, _)
leavesOfChildren(data, info, children, fuel) ==
    LET under[i \in 0..Len(children)] ==
            IF i = 0 THEN << >>
            ELSE under[i - 1] \o leavesUnder(data, info, _readChild(data, children[i]), fuel)
    IN under[Len(children)]

leavesUnder(data, info, nodeInfo, fuel) ==
    IF nodeInfo.isLeaf THEN << _getLeaf(info, nodeInfo) >>
    ELSE IF fuel = 0 THEN << FailedLeaf("never settles") >>
    ELSE IF _getNode(nodeInfo).err # NoError THEN << FailedLeaf(_getNode(nodeInfo).err) >>
    ELSE leavesOfChildren(data, info, ChildIndexes(_getNode(nodeInfo)), fuel - 1)

\* the leaves reached from the root through child pointers
TreeLeaves(data) ==
    leavesUnder(data, _getReader(data), _readChild(data, _getReader(data).headerLength),
                MaxDescent)

\* the keys of the entries are strictly increasing under the comparator
StrictlyIncreasing(entries) ==
    \A i \in 1..(Len(entries) - 1) : _isLess(entries[i].key, entries[i + 1].key)

\* C3: in every leaf of the tree the keys of adjacent entries are strictly
\* increasing, so no leaf holds a key twice
C3_LeafEntriesIncrease ==
    calls > 0 =>
    \A i \in DOMAIN TreeLeaves(disk) : StrictlyIncreasing(TreeLeaves(disk)[i].entries)

\* every key under the record at nodeInfo is at least lo (if hasLo) and
\* less than hi (if hasHi), and so on under every node below it
RECURSIVE pivotsHold(_, _, _, _, _, _, _, _)
pivotsHoldIn(data, info, node, hasLo, lo, hasHi, hi, fuel) ==
    \A c \in 1..(Len(node.entries) + 1) :
        pivotsHold(data, info, _readChild(data, ChildIndexes(node)[c]),
                   (c > 1) \/ hasLo, IF c > 1 THEN node.entries[c - 1].key ELSE lo,
                   (c <= Len(node.entries)) \/ hasHi,
                   IF c <= Len(node.entries) THEN node.entries[c].key ELSE hi, fuel)

pivotsHold(data, info, nodeInfo, hasLo, lo, hasHi, hi, fuel) ==
    IF nodeInfo.isLeaf
    THEN \A e \in DOMAIN _getLeaf(info, nodeInfo).entries :
            /\ hasLo => ~_isLess(_getLeaf(info, nodeInfo).entries[e].key, lo)
            /\ hasHi => _isLess(_getLeaf(info, nodeInfo).entries[e].key, hi)
    ELSE /\ fuel > 0
         /\ pivotsHoldIn(data, info, _getNode(nodeInfo), hasLo, lo, hasHi, hi, fuel - 1)

\* C4: for every node with pivots k_1..k_n and children c_0..c_n, every
\* key K under c_i has k_i <= K < k_(i+1)
C4_PivotsBoundSubtrees ==
    calls > 0 =>
    pivotsHold(disk, _getReader(disk), _readChild(disk, _getReader(disk).headerLength),
               FALSE, KUndefined, FALSE, KUndefined, MaxDescent)

\* the entries of the leaves, one leaf after the other
RECURSIVE AllEntries(_)
AllEntries(leaves) ==
    IF leaves = << >> THEN << >> ELSE Head(leaves).entries \o AllEntries(Tail(leaves))

\* the places of the leaves
Indexes(leaves) == [i \in DOMAIN leaves |-> leaves[i].index]

\* the chain of `leaves` is doubly linked: no leaf before the first, and
\* every other leaf points back at the one whose next pointer led to it
DoublyLinked(leaves) ==
    /\ prevLeafIndex(leaves[1]) = 0
    /\ \A i \in 2..Len(leaves) : prevLeafIndex(leaves[i]) = leaves[i - 1].index

\* C5: the leaves met by following next pointers from the first leaf are
\* the leaves reached from the root through child pointers, every prev
\* pointer is the inverse of the next pointer that leads to the leaf, and
\* the entries along the chain are sorted
C5_LeafChainIsTheTree ==
    calls > 0 =>
    /\ \A i \in DOMAIN LeafChain(disk) : LeafChain(disk)[i].err = NoError
    /\ Indexes(LeafChain(disk)) = Indexes(TreeLeaves(disk))
    /\ DoublyLinked(LeafChain(disk))
    /\ StrictlyIncreasing(AllEntries(LeafChain(disk)))

\* ---------------------------------------------------------------------
\* What find gives after add, remove and transaction
\* ---------------------------------------------------------------------
\* the keys the trees are built with
BuiltKeys == { KeyB, KeyD, KeyF, KeyH }

\* the keys find is asked for
AllKeys == Keys \cup BuiltKeys

Contains(values, recordPointer) == \E i \in DOMAIN values : values[i] = recordPointer

\* C6: once add(k, rp) has resolved, find(k) contains rp, whether the add
\* was done in place, by a leaf rebuild, by a leaf split or by addValue
C6_AddThenFind ==
    (calls > 0 /\ last.op = "add" /\ last.err = NoError)
        => /\ find(disk, last.key).found
           /\ Contains(find(disk, last.key).values, last.recordPointer)

\* the last two calls were add(k, rp), which resolved, for a (k, rp) not
\* stored before, and remove(k, rp)
AddThenRemove ==
    /\ calls >= 2
    /\ history[calls - 1].call.op = "add"
    /\ history[calls - 1].call.err = NoError
    /\ last.op = "remove"
    /\ last.key = history[calls - 1].call.key
    /\ last.recordPointer = history[calls - 1].call.recordPointer
    /\ ~Contains(find(history[calls - 1].disk, last.key).values, last.recordPointer)

\* C7: after add(k, rp) and remove(k, rp), find(k) gives the values it
\* gave before the add, and so does find of every other key
C7_AddThenRemove ==
    AddThenRemove
        => \A key \in AllKeys : find(disk, key) = find(history[calls - 1].disk, key)

\* the key was stored when the last call was made: built into the tree
\* or added by a call that resolved, no call having failed or removed
\* anything before
StoredBefore(key) ==
    /\ \A i \in 1..(calls - 1) :
            history[i].call.op \in { "add", "addValue" } /\ history[i].call.err = NoError
    /\ \/ key \in BuiltKeys
       \/ \E i \in 1..(calls - 1) :
            history[i].call.op = "add" /\ history[i].call.key = key

DuplicateKey == "Cannot add duplicate key: tree expects unique keys"

\* C8: add of a key that is stored: on a unique tree it fails with the
\* duplicate-key error and find gives for every key what it gave before;
\* on a non-unique tree, if it resolves, the value is appended to the
\* values of the key
C8_AddOfStoredKey ==
    (calls > 0 /\ last.op = "add" /\ StoredBefore(last.key))
        => IF _getReader(LastCall.disk).isUnique
           THEN /\ last.err = DuplicateKey
                /\ \A key \in AllKeys : find(disk, key) = find(LastCall.disk, key)
           ELSE last.err = NoError
                    => find(disk, last.key).values
                         = Append(find(LastCall.disk, last.key).values, last.recordPointer)

\* one operation of a transaction called on its own
applyOperation(st, tree, operation, pick) ==
    IF operation.type = "add"
    THEN add(st, tree, operation.key, operation.recordPointer, pick)
    ELSE remove(st, operation.key, TRUE, operation.recordPointer)

\* the first n operations called one after the other, each on what the
\* one before has left
RECURSIVE applied(_, _, _, _, _)
applied(st, tree, operations, n, pick) ==
    IF n = 0 THEN st
    ELSE applyOperation(applied(st, tree, operations, n - 1, pick), tree, operations[n],
                        pick).st

\* the example of a transaction that fails at its third operation
ExampleTransaction == << OpAdd(KeyG, RP1), OpAdd(KeyI, RP2), OpAdd(KeyG, RP3) >>

\* C9: a transaction runs its operations in order.  When one fails, those
\* before it stay applied, those after it are never started, the failed
\* one is put back at the front of the operations, and the transaction
\* rejects with its error.  On a unique tree the example, once its first
\* two operations have resolved, fails at the third with the duplicate-key
\* error and leaves find(x) = [1] and find(y) = [2].
C9_TransactionInOrder ==
    (calls > 0 /\ last.op = "transaction")
        => /\ last.started \in 1..Len(last.given)
           /\ \E pick \in 1..Max(1, Len(LastCall.fst)) :
                LET before == [ disk |-> LastCall.disk, fst |-> LastCall.fst ]
                    settled == applyOperation(
                                   applied(before, Tree, last.given, last.started - 1, pick),
                                   Tree, last.given[last.started], pick)
                IN  /\ last.err = settled.err
                    /\ disk = settled.st.disk
                    /\ \A n \in 1..(last.started - 1) :
                           applyOperation(applied(before, Tree, last.given, n - 1, pick),
                                          Tree, last.given[n], pick).err = NoError
           /\ last.err = NoError
                => last.started = Len(last.given) /\ last.operations = << >>
           /\ last.err # NoError
                => last.operations = SubSeq(last.given, last.started, Len(last.given))
           /\ (calls = 1 /\ _getReader(LastCall.disk).isUnique
                        /\ last.given = ExampleTransaction /\ last.started = 3)
                => /\ last.err = DuplicateKey
                   /\ find(disk, KeyG).values = << RP1 >>
                   /\ find(disk, KeyI).values = << RP2 >>

\* ---------------------------------------------------------------------
\* The ext_data blocks
\* ---------------------------------------------------------------------
\* the value records decoded from the used bytes of an ext_data block
RECURSIVE decodeRecords(_, _)
decodeRecords(bytes, index) ==
    IF index >= Len(bytes) THEN << >>
    ELSE << readEntryValue(bytes, index).recordPointer >>
         \o decodeRecords(bytes, index + readEntryValue(bytes, index).byteLength)

BlockRecords(data, entry) ==
    decodeRecords(Slice(data, entry.extIndex + ExtBlockHeaderLength,
                        entry.extIndex + ExtBlockHeaderLength
                        + loadHeader(data, entry).length - loadHeader(data, entry).freeBytes),
                  0)

\* only addValue and removeValue of ext_data have been called
OnlyExtDataCalls ==
    calls > 0 /\ \A i \in DOMAIN history : history[i].call.op \in { "addValue", "removeValue" }

\* C10: after addValue and removeValue calls, for every entry with
\* ext_data the value_list_length of the leaf is the number of value
\* records decoded from the block, and the free length of the block is
\* its length less the bytes of those records
C10_ExtDataCounts ==
    OnlyExtDataCalls
        => \A i \in DOMAIN TreeLeaves(disk) :
             \A j \in DOMAIN TreeLeaves(disk)[i].entries :
                LET entry == TreeLeaves(disk)[i].entries[j]
                IN  entry.ext
                        => /\ entry.totalValues = Len(BlockRecords(disk, entry))
                           /\ loadHeader(disk, entry).freeBytes
                                = loadHeader(disk, entry).length
                                  - Len(ValuesBytes(BlockRecords(disk, entry)))

\* ---------------------------------------------------------------------
\* The allocator at work with autoGrow set (tree.autoGrow = true)
\* ---------------------------------------------------------------------
GrowInit ==
    \E isUnique \in BOOLEAN, allocatedBytes \in InitAllocatedBytes,
       leafs \in { PlainLeafs, ExtLeafs } :
        /\ ~(isUnique /\ leafs = ExtLeafs)
        /\ disk = create(isUnique, MaxEntriesPerNode, InitFillFactor, allocatedBytes, leafs)
        /\ fst = << >>
        /\ originalByteLength = _readByteLength(disk, 0)
        /\ autoGrow = TRUE
        /\ last = Settled("none", KUndefined, << >>, [ err |-> NoError ], << >>, << >>, 0)
        /\ history = << >>
        /\ writer = << >>
        /\ locked = { }
        /\ tx = NewTX
        /\ memTree = BPlusTree(MaxEntriesPerNode, FALSE)
        /\ NoCallers
        /\ cache = NoCache

GrowSpec == GrowInit /\ [][Next]_vars

\* the regions [index, length] of the records under the record at nodeInfo:
\* a node takes its byte_length, a leaf its byte_length and its ext_data
RECURSIVE recordsUnder(_, _, _, _)
recordsOfChildren(data, info, children, fuel) ==
    UNION { recordsUnder(data, info, _readChild(data, children[i]), fuel) :
            i \in DOMAIN children }

recordsUnder(data, info, nodeInfo, fuel) ==
    IF nodeInfo.isLeaf
    THEN { [ index |-> nodeInfo.index,
             length |-> nodeInfo.length + _getLeaf(info, nodeInfo).extLength ] }
    ELSE { [ index |-> nodeInfo.index, length |-> nodeInfo.length ] }
         \cup (IF fuel = 0 \/ _getNode(nodeInfo).err # NoError THEN {}
               ELSE recordsOfChildren(data, info, ChildIndexes(_getNode(nodeInfo)),
                                      fuel - 1))

\* the live records: those reached from the root through child pointers
LiveRecords(data) ==
    recordsUnder(data, _getReader(data), _readChild(data, _getReader(data).headerLength),
                 MaxDescent)

RECURSIVE SumRegions(_)
SumRegions(regions) ==
    IF regions = {} THEN 0
    ELSE LET r == CHOOSE x \in regions : TRUE
         IN r.length + SumRegions(regions \ { r })

\* the bytes the allocator accounts for: reclaimed regions, live records
\* and the free tail
Accounted(data, blocks) ==
    SumLengths(blocks) + SumRegions(LiveRecords(data)) + _getReader(data).freeSpace

\* C11: after any sequence of requests, releases and auto-grows the
\* reclaimed regions, the live records and the free tail together never
\* exceed the byte length of the tree
C11_AllocatorAccounting == Accounted(disk, fst) <= _getReader(disk).byteLength

\* a call after which the tree has grown, a region is reclaimed and the
\* free tail was carved
C11_Grown ==
    /\ calls > 0
    /\ LastCall.call.err = NoError
    /\ _getReader(disk).byteLength > originalByteLength
    /\ fst # << >>

\* ---------------------------------------------------------------------
\* BinaryBPlusTree.rebuild(writer, options) and the BinaryBPlusTree.create
\* it calls: the source tree is read leaf by leaf along the chain, the new
\* tree is appended to the writer
\* ---------------------------------------------------------------------
TypeErrorKey == "TypeError: Cannot read property 'key' of undefined"

\* Math.round(maxEntriesPerNode * 1.1), below 255
RoundTimes11(x) == (11 * x + 5) \div 10

\* Math.round(maxEntriesPerNode * (fillFactor / 100))
entriesPerLeafOf(maxEntriesPerNode, fillFactor) ==
    (maxEntriesPerNode * fillFactor + 50) \div 100

\* the keys processLeaf pushes when a leaf is cut: those at the cut index
\* c and every entriesPerLeaf entries further on
RECURSIVE cutKeys(_, _, _)
cutKeys(entries, c, entriesPerLeaf) ==
    IF c >= Len(entries) THEN << >>
    ELSE << entries[c + 1].key >> \o cutKeys(entries, c + entriesPerLeaf, entriesPerLeaf)

\* the last cut index of that leaf
RECURSIVE lastCut(_, _, _)
lastCut(n, c, entriesPerLeaf) ==
    IF c + entriesPerLeaf >= n THEN c ELSE lastCut(n, c + entriesPerLeaf, entriesPerLeaf)

\* processLeaf of getLeafStartKeys over the leaves of the chain from
\* leaves[i] on
RECURSIVE processLeafs(_, _, _, _, _)
processLeaf(leaves, i, entriesPerLeaf, keys, from) ==
    LET leaf == leaves[i]
        n == Len(leaf.entries)
        c == entriesPerLeaf - from
    IN
        IF from + n <= entriesPerLeaf
        THEN processLeafs(leaves, i + 1, entriesPerLeaf, keys, from + n)
        ELSE processLeafs(leaves, i + 1, entriesPerLeaf,
                          keys \o cutKeys(leaf.entries, c, entriesPerLeaf),
                          n - lastCut(n, c, entriesPerLeaf))

processLeafs(leaves, i, entriesPerLeaf, keys, entriesFromLastLeafStart) ==
    IF i > Len(leaves) THEN [ err |-> NoError, keys |-> keys ]
    ELSE IF leaves[i].err # NoError THEN [ err |-> leaves[i].err, keys |-> keys ]
    ELSE IF keys = << >> \/ entriesFromLastLeafStart = entriesPerLeaf
    THEN IF leaves[i].entries = << >> THEN [ err |-> TypeErrorKey, keys |-> keys ]
         ELSE processLeaf(leaves, i, entriesPerLeaf,
                          Append(keys, leaves[i].entries[1].key), 0)
    ELSE processLeaf(leaves, i, entriesPerLeaf, keys, entriesFromLastLeafStart)

\* getLeafStartKeys(entriesPerLeaf) of rebuild
getLeafStartKeys(data, entriesPerLeaf) ==
    processLeafs(LeafChain(data), 1, entriesPerLeaf, << >>, 0)

\* the position of the first entry keyed `key` (entry.key === key), 0 if none
RECURSIVE findKeyFrom(_, _, _)
findKeyFrom(entries, key, i) ==
    IF i > Len(entries) THEN 0
    ELSE IF entries[i].key = key THEN i
    ELSE findKeyFrom(entries, key, i + 1)

\* flush(flushAll) of create.  fl = [newLeafEntries, currentLeafIndex, the
\* entry lists given to writeLeaf so far, err]; writeLeaf reads
\* entries[0].key, which throws for an empty list
RECURSIVE flush(_, _, _, _)
flushed(fl, leafStartKeys, entriesPerLeaf, flushAll, cut) ==
    LET entries == Slice(fl.newLeafEntries, 0, cut)
        next == [ newLeafEntries |-> Slice(fl.newLeafEntries, cut, Len(fl.newLeafEntries)),
                  currentLeafIndex |-> fl.currentLeafIndex + 1,
                  written |-> Append(fl.written, entries), err |-> NoError ]
    IN
        IF entries = << >> THEN [fl EXCEPT !.err = TypeErrorKey]
        ELSE IF Len(next.newLeafEntries) >= entriesPerLeaf
                \/ (flushAll /\ Len(next.newLeafEntries) > 0)
        THEN flush(next, leafStartKeys, entriesPerLeaf, flushAll)
        ELSE next

flush(fl, leafStartKeys, entriesPerLeaf, flushAll) ==
    LET hasCut == /\ fl.currentLeafIndex + 2 <= Len(leafStartKeys)
                  /\ leafStartKeys[fl.currentLeafIndex + 2] # KUndefined
        cutEntryIndex == findKeyFrom(fl.newLeafEntries,
                                     leafStartKeys[fl.currentLeafIndex + 2], 1)
    IN
        IF ~hasCut
        THEN IF flushAll
             THEN flushed(fl, leafStartKeys, entriesPerLeaf, flushAll,
                          Len(fl.newLeafEntries))
             ELSE fl
        ELSE IF cutEntryIndex = 0 THEN fl
        ELSE flushed(fl, leafStartKeys, entriesPerLeaf, flushAll, cutEntryIndex - 1)

\* processEntries of create over the entry lists getEntries gives, one for
\* each leaf of the chain from leaves[i] on, and an empty one after the last
RECURSIVE processEntries(_, _, _, _, _, _)
processEntries(data, leaves, i, fl, leafStartKeys, entriesPerLeaf) ==
    LET leaf == IF leaves[i].hasExtData THEN loadExtData(data, leaves[i]) ELSE leaves[i]
    IN
        IF fl.err # NoError THEN fl
        ELSE IF i > Len(leaves) THEN flush(fl, leafStartKeys, entriesPerLeaf, TRUE)
        ELSE IF leaves[i].err # NoError THEN [fl EXCEPT !.err = leaves[i].err]
        ELSE IF leaf.entries = << >> THEN flush(fl, leafStartKeys, entriesPerLeaf, TRUE)
        ELSE processEntries(data, leaves, i + 1,
                flush([fl EXCEPT !.newLeafEntries = @ \o leaf.entries],
                      leafStartKeys, entriesPerLeaf, FALSE),
                leafStartKeys, entriesPerLeaf)

\* the entry lists of the leaves create writes for the keys leafStartKeys
newLeafs(data, leafStartKeys, entriesPerLeaf) ==
    processEntries(data, LeafChain(data), 1,
        [ newLeafEntries |-> << >>, currentLeafIndex |-> 0, written |-> << >>,
          err |-> NoError ],
        leafStartKeys, entriesPerLeaf)

\* A node of a level of create: entries [key, ltChildIndex], gtChildIndex
\* and gtMaxKey, the child indexes being positions (from 0) in the level
\* below.  A leaf stands in the lowest list as its start key.
LevelNode(entries, gtChildIndex, gtMaxKey) ==
    [ isNode |-> TRUE, key |-> KUndefined, entries |-> entries,
      gtChildIndex |-> gtChildIndex, gtMaxKey |-> gtMaxKey ]

LeafChild(key) ==
    [ isNode |-> FALSE, key |-> key, entries |-> << >>, gtChildIndex |-> -1,
      gtMaxKey |-> KUndefined ]

\* the key of the connection to children[i]: gtMaxKey of a node, the start
\* key of the next leaf for a leaf
connectionKey(children, i) ==
    IF children[i].isNode THEN children[i].gtMaxKey
    ELSE IF i < Len(children) THEN children[i + 1].key
    ELSE KUndefined

\* the reduce of create that lays one level of nodes over the children
RECURSIVE createLevelFrom(_, _, _, _, _)
createLevelFrom(children, i, entriesPerNode, nodes, currentNode) ==
    LET entriesLeft == Len(children) - (i - 1)
        isLast == \/ i = Len(children)
                  \/ Len(currentNode.entries) = entriesPerNode
                  \/ (entriesLeft = 3
                      /\ Len(currentNode.entries) + entriesLeft > entriesPerNode)
        closed == LevelNode(currentNode.entries, i - 1, connectionKey(children, i))
    IN
        IF i > Len(children) THEN Append(nodes, currentNode)
        ELSE IF isLast
        THEN IF i < Len(children)
             THEN createLevelFrom(children, i + 1, entriesPerNode, Append(nodes, closed),
                                  LevelNode(<< >>, -1, KUndefined))
             ELSE Append(nodes, closed)
        ELSE createLevelFrom(children, i + 1, entriesPerNode, nodes,
                LevelNode(Append(currentNode.entries,
                                 [ key |-> connectionKey(children, i),
                                   ltChildIndex |-> i - 1 ]),
                          -1, KUndefined))

createLevel(children, entriesPerNode) ==
    createLevelFrom(children, 1, entriesPerNode, << >>, LevelNode(<< >>, -1, KUndefined))

\* the levels of create, the one over the leaves first
RECURSIVE createLevels(_, _)
createLevels(childLevelNodes, entriesPerNode) ==
    IF Len(childLevelNodes) <= 1 THEN << >>
    ELSE << createLevel(childLevelNodes, entriesPerNode) >>
         \o createLevels(createLevel(childLevelNodes, entriesPerNode), entriesPerNode)

\* the nodes of the levels in the order create writes them: the highest
\* level first, every level from its first node on
RECURSIVE writeOrder(_, _)
writeOrder(levels, l) ==
    IF l = 0 THEN << >>
    ELSE [n \in 1..Len(levels[l]) |-> [ l |-> l, n |-> n ]] \o writeOrder(levels, l - 1)

\* createNode for a node of a level, its children at ltIndexes and gtIndex
createLevelNode(maxEntriesPerNode, node, index, ltIndexes, gtIndex, maxLength) ==
    createNode(maxEntriesPerNode,
        [ index |-> index, gtIndex |-> gtIndex,
          entries |-> [i \in 1..Len(node.entries) |->
                        [ key |-> node.entries[i].key, ltIndex |-> ltIndexes[i] ]] ],
        maxLength)

\* the first write of the nodes (nextLevel of create), child pointers not
\* known yet: every node gets its index and its byte length
RECURSIVE nextLevel(_, _, _, _, _, _)
nextLevel(maxEntriesPerNode, levels, order, k, index, placed) ==
    LET node == levels[order[k].l][order[k].n]
        built == createLevelNode(maxEntriesPerNode, node, index,
                                 [i \in 1..Len(node.entries) |-> 0], 0, 0)
    IN
        IF k > Len(order) THEN [ err |-> NoError, placed |-> placed, index |-> index ]
        ELSE IF built.err # NoError
        THEN [ err |-> built.err, placed |-> placed, index |-> index ]
        ELSE nextLevel(maxEntriesPerNode, levels, order, k + 1, index + Len(built.bytes),
                       Append(placed, [ l |-> order[k].l, n |-> order[k].n, index |-> index,
                                        byteLength |-> Len(built.bytes) ]))

\* writeLeaf of create over the entry lists, one leaf behind the other
RECURSIVE writeLeaf(_, _, _, _, _, _, _)
writeLeaf(isUnique, maxEntriesPerNode, written, i, index, prevIndex, createLeafs) ==
    LET newLeaf == createLeaf(isUnique, maxEntriesPerNode,
                       [ index |-> index, prevIndex |-> prevIndex,
                         nextIndex |-> IF i = createLeafs THEN 0 ELSE Adjacent,
                         entries |-> written[i],
                         hasExtInfo |-> FALSE, extLength |-> 0, extFreeBytes |-> 0,
                         extRebuild |-> FALSE ],
                       [ maxLength |-> 0, canAddExtData |-> FALSE, extBase |-> 0 ])
        rest == writeLeaf(isUnique, maxEntriesPerNode, written, i + 1,
                          index + Len(newLeaf.bytes), index, createLeafs)
    IN
        IF i > Len(written) THEN [ err |-> NoError, bytes |-> << >>, leafIndexes |-> << >> ]
        ELSE IF newLeaf.err # NoError
        THEN [ err |-> newLeaf.err, bytes |-> << >>, leafIndexes |-> << >> ]
        ELSE [ err |-> rest.err, bytes |-> newLeaf.bytes \o rest.bytes,
               leafIndexes |-> << index >> \o rest.leafIndexes ]

\* the index of child c (from 0) of a node of level l: a leaf index under
\* the lowest level, a node index above it; a leaf that was not written
\* has none, and the pointer to it is written as 0
childIndexOf(placed, leafIndexes, l, c) ==
    IF l = 1
    THEN IF c + 1 \in DOMAIN leafIndexes THEN leafIndexes[c + 1] ELSE 0
    ELSE (CHOOSE p \in { placed[j] : j \in DOMAIN placed } : p.l = l - 1 /\ p.n = c + 1).index

\* the last write of the nodes, with the child indexes
RECURSIVE rewriteNodes(_, _, _, _, _)
rewriteNodes(maxEntriesPerNode, levels, placed, leafIndexes, k) ==
    LET at == placed[k]
        node == levels[at.l][at.n]
        built == createLevelNode(maxEntriesPerNode, node, at.index,
                    [i \in 1..Len(node.entries) |->
                        childIndexOf(placed, leafIndexes, at.l, node.entries[i].ltChildIndex)],
                    childIndexOf(placed, leafIndexes, at.l, node.gtChildIndex),
                    at.byteLength)
        rest == rewriteNodes(maxEntriesPerNode, levels, placed, leafIndexes, k + 1)
    IN
        IF k > Len(placed) THEN [ err |-> NoError, bytes |-> << >> ]
        ELSE IF built.err # NoError THEN [ err |-> built.err, bytes |-> << >> ]
        ELSE [ err |-> rest.err, bytes |-> built.bytes \o rest.bytes ]

\* create, once the nodes are rewritten: the bytes of the new tree
createNodesRewritten(isUnique, maxEntriesPerNode, fillFactor, allocatedBytes, headerLength, leafs, nodes) ==
    IF nodes.err # NoError THEN [ err |-> nodes.err, bytes |-> << >> ]
    ELSE [ err |-> NoError,
           bytes |-> createSized(isUnique, maxEntriesPerNode, fillFactor, allocatedBytes,
                                 nodes.bytes, leafs.bytes, headerLength) ]

\* create, once the leafs are written: the nodes are written again with
\* the indexes of the leafs
createLeafsWritten(isUnique, maxEntriesPerNode, fillFactor, allocatedBytes, headerLength, levels, firstPass, leafs) ==
    IF leafs.err # NoError THEN [ err |-> leafs.err, bytes |-> << >> ]
    ELSE createNodesRewritten(isUnique, maxEntriesPerNode, fillFactor, allocatedBytes, headerLength,
                       leafs,
                       rewriteNodes(maxEntriesPerNode, levels, firstPass.placed,
                                    leafs.leafIndexes, 1))

\* create, once the entries of the new leafs are read
createEntriesRead(isUnique, maxEntriesPerNode, fillFactor, allocatedBytes, headerLength, levels, firstPass, leafEntries, createLeafs) ==
    IF leafEntries.err # NoError THEN [ err |-> leafEntries.err, bytes |-> << >> ]
    ELSE createLeafsWritten(isUnique, maxEntriesPerNode, fillFactor, allocatedBytes,
                            headerLength, levels, firstPass,
                            writeLeaf(isUnique, maxEntriesPerNode, leafEntries.written, 1,
                                      firstPass.index, 0, createLeafs))

\* create, once the nodes are written a first time
createNodesPlaced(data, isUnique, maxEntriesPerNode, fillFactor, allocatedBytes, headerLength, levels, firstPass, keys, entriesPerLeaf) ==
    IF firstPass.err # NoError THEN [ err |-> firstPass.err, bytes |-> << >> ]
    ELSE createEntriesRead(isUnique, maxEntriesPerNode, fillFactor, allocatedBytes,
                           headerLength, levels, firstPass,
                           newLeafs(data, keys, entriesPerLeaf), Len(keys))

\* create, once the levels of nodes are laid out
createLevelsMade(data, isUnique, maxEntriesPerNode, fillFactor, allocatedBytes, headerLength, levels, keys, entriesPerLeaf) ==
    createNodesPlaced(data, isUnique, maxEntriesPerNode, fillFactor, allocatedBytes,
                      headerLength, levels,
                      nextLevel(maxEntriesPerNode, levels, writeOrder(levels, Len(levels)),
                                1, headerLength, << >>),
                      keys, entriesPerLeaf)

\* create, once getLeafStartKeys has settled
createStartKeysRead(data, isUnique, maxEntriesPerNode, fillFactor, allocatedBytes, entriesPerLeaf, leafStartKeys) ==
    IF leafStartKeys.err # NoError THEN [ err |-> leafStartKeys.err, bytes |-> << >> ]
    ELSE IF Len(leafStartKeys.keys) = 1 THEN [ err |-> "Not implemented", bytes |-> << >> ]
    ELSE createLevelsMade(data, isUnique, maxEntriesPerNode, fillFactor, allocatedBytes,
                          Len(getHeader(isUnique, maxEntriesPerNode, fillFactor,
                                        allocatedBytes, 1)),
                          createLevels([i \in 1..Len(leafStartKeys.keys) |->
                                            LeafChild(leafStartKeys.keys[i])],
                                       entriesPerLeaf),
                          leafStartKeys.keys, entriesPerLeaf)

\* create, the entries of a leaf being known
createPerLeaf(data, isUnique, maxEntriesPerNode, fillFactor, allocatedBytes, entriesPerLeaf) ==
    createStartKeysRead(data, isUnique, maxEntriesPerNode, fillFactor, allocatedBytes,
                        entriesPerLeaf, getLeafStartKeys(data, entriesPerLeaf))

\* BinaryBPlusTree.create(options) as rebuild calls it: getLeafStartKeys and
\* getEntries read the tree in `data`, keepFreeSpace is set
createFrom(data, isUnique, maxEntriesPerNode, fillFactor, allocatedBytes) ==
    createPerLeaf(data, isUnique, maxEntriesPerNode, fillFactor, allocatedBytes,
                  entriesPerLeafOf(maxEntriesPerNode, fillFactor))

\* the fill factor rebuild passes on: options.fillFactor || info.fillFactor || 95
rebuildFillFactor(info, fillFactor) ==
    IF fillFactor # 0 THEN fillFactor
    ELSE IF info.fillFactor # 0 THEN info.fillFactor
    ELSE 95

\* the maxEntriesPerNode rebuild passes on, increaseMaxEntries being set
rebuildMaxEntries(info) ==
    IF info.entriesPerNode < 255 THEN Min(255, RoundTimes11(info.entriesPerNode))
    ELSE info.entriesPerNode

\* tree.rebuild(writer, { fillFactor }): what the writer holds when the
\* call settles; allocatedBytes is not given
rebuild(data, fillFactor) ==
    createFrom(data, _getReader(data).isUnique, rebuildMaxEntries(_getReader(data)),
               rebuildFillFactor(_getReader(data), fillFactor), 0)

\* the fillFactor option rebuild is called with, 0 for none
RebuildFillFactors == { 0, 100 }

\* the caller rebuild is in the queue of the lock
RebuildCaller == 0

\* tree.rebuild(writer, { fillFactor }) with a new BinaryWriter.  The lock
\* of the tree id is released when create has settled well, and only then
\* (lock.release() is in the then of the chain, which has no catch): after
\* a rebuild that rejects, the lock stays with it.  An err of "never
\* settles" is a call whose promise stays pending.  What a rebuild that
\* does not settle well has appended to the writer is left out.
RebuildSettles(rebuilt) ==
    /\ writer' = rebuilt.bytes
    /\ waiters' = IF rebuilt.err = NoError THEN waiters ELSE << RebuildCaller >>
    /\ last' = Settled("rebuild", KUndefined, << >>, rebuilt, << >>, << >>, 0)
    /\ history' = Append(history, [ call |-> last', disk |-> disk, fst |-> fst ])
    /\ UNCHANGED << cache, disk, fst, originalByteLength, autoGrow, pc, request, held, memTree,
                    locked, tx >>

Rebuild(fillFactor) ==
    /\ calls < MaxCalls
    /\ waiters = << >>
    /\ RebuildSettles(rebuild(disk, fillFactor))

RebuildNext ==
    \/ \E key \in Keys, recordPointer \in RecordPointers : Add(key, recordPointer)
    \/ \E key \in Keys, recordPointer \in { RP1, RP2 } : Remove(key, recordPointer)
    \/ \E key \in Keys : RemoveKey(key)
    \/ \E key \in { KeyB, KeyH, KeyI } : Update(key, RP2, RP1)
    \/ \E operations \in Transactions : Transaction(operations)
    \/ \E key \in Keys, recordPointer \in RecordPointers : ExtAddValue(key, recordPointer)
    \/ \E key \in Keys, recordPointer \in RecordPointers : ExtRemoveValue(key, recordPointer)
    \/ \E fillFactor \in RebuildFillFactors : Rebuild(fillFactor)

RebuildSpec == Init /\ [][RebuildNext]_vars

\* the entries a full iteration gives: those of every leaf of the chain,
\* the values of ext_data entries loaded
RECURSIVE Iterated(_, _)
Iterated(data, leaves) ==
    IF leaves = << >> THEN << >>
    ELSE (IF Head(leaves).err = NoError /\ Head(leaves).hasExtData
          THEN [i \in DOMAIN Head(leaves).entries |->
                   [ key |-> loadExtData(data, Head(leaves)).entries[i].key,
                     values |-> loadExtData(data, Head(leaves)).entries[i].values ]]
          ELSE [i \in DOMAIN Head(leaves).entries |->
                   [ key |-> Head(leaves).entries[i].key,
                     values |-> Head(leaves).entries[i].values ]])
         \o Iterated(data, Tail(leaves))

IteratedEntries(data) == Iterated(data, LeafChain(data))

\* a sequence as a multiset
BagOfSeq(seq) ==
    [x \in { seq[i] : i \in DOMAIN seq } |-> Cardinality({ i \in DOMAIN seq : seq[i] = x })]

\* C12: a rebuild settles well and a full iteration of the tree it has
\* written gives the same multiset of entries as one of the source tree,
\* whatever the size of the source tree, the trees whose entries fit in a
\* single leaf included
C12_RebuildKeepsEntries ==
    last.op = "rebuild" =>
        /\ last.err = NoError
        /\ BagOfSeq(IteratedEntries(writer)) = BagOfSeq(IteratedEntries(disk))

\* the leaves of the tree a rebuild has written, the last one left out
FullLeaves(data) == SubSeq(LeafChain(data), 1, Len(LeafChain(data)) - 1)

\* C13: after a rebuild with fill factor f, every leaf but the last holds
\* at least f% of the maximum of entries per node, and at most the maximum
C13_AtLeastFillFactor ==
    (last.op = "rebuild" /\ last.err = NoError) =>
        \A i \in DOMAIN FullLeaves(writer) :
            /\ 100 * Len(FullLeaves(writer)[i].entries)
                   >= _getReader(writer).entriesPerNode * _getReader(writer).fillFactor
            /\ Len(FullLeaves(writer)[i].entries) <= _getReader(writer).entriesPerNode

\* ---------------------------------------------------------------------
\* The in-memory tree at work: a tree is made by new BPlusTree or by a
\* builder, and keys are added to it
\* ---------------------------------------------------------------------
MaxAdds == 5
MaxMemKeys == 5

\* the i-th key given to the trees in memory: 'a', 'b', ... in key order
MemKey(i) == Str(96 + i, 1)
MemKeys == { MemKey(i) : i \in 1..MaxMemKeys }

\* maxEntriesPerNode of new BPlusTree, and the maxEntries of create (0: none)
MemMaxEntries == { 2, 4 }
BuilderMaxEntries == { 0, 2, 3 }

\* how many keys the builder was given
BuilderSizes == { 0, 2, 4, 7, 10, 13 }

\* the list of create once sorted: the first n keys, one value each
BuilderList(n, uniqueKeys) ==
    [i \in 1..n |-> [ key |-> MemKey(i), val |-> IF uniqueKeys THEN RP1 ELSE << RP1 >> ]]

MemInit ==
    /\ disk = create(FALSE, MaxEntriesPerNode, InitFillFactor, 0, PlainLeafs)
    /\ fst = << >>
    /\ originalByteLength = _readByteLength(disk, 0)
    /\ autoGrow = FALSE
    /\ last = Settled("none", KUndefined, << >>, [ err |-> NoError ], << >>, << >>, 0)
    /\ history = << >>
    /\ writer = << >>
    /\ locked = { }
    /\ tx = NewTX
    /\ NoCallers
    /\ cache = NoCache
    /\ \E maxEntriesPerNode \in MemMaxEntries, uniqueKeys \in BOOLEAN :
        memTree = BPlusTree(maxEntriesPerNode, uniqueKeys)

\* tree.add(key, recordPointer)
TreeAdd(key, recordPointer) ==
    /\ Len(history) < MaxAdds
    /\ memTree' = mAdd(memTree, key, recordPointer).tree
    /\ last' = Settled("tree.add", key, recordPointer, mAdd(memTree, key, recordPointer),
                       << >>, << >>, 0)
    /\ history' = Append(history, [ call |-> last', disk |-> disk, fst |-> fst ])
    /\ UNCHANGED << cache, disk, fst, originalByteLength, autoGrow, pc, request, held, waiters,
                    writer, locked, tx >>

\* new BPlusTreeBuilder(false, 100), add of the first n keys, create(maxEntries)
Build(n, maxEntries) ==
    /\ history = << >>
    /\ memTree' = builderCreate(BuilderList(n, FALSE), FALSE, 100, maxEntries)
    /\ last' = Settled("builder.create", KUndefined, << >>, [ err |-> NoError ],
                       << >>, << >>, n)
    /\ history' = Append(history, [ call |-> last', disk |-> disk, fst |-> fst ])
    /\ UNCHANGED << cache, disk, fst, originalByteLength, autoGrow, pc, request, held, waiters,
                    writer, locked, tx >>

MemoryNext ==
    \/ \E key \in MemKeys : TreeAdd(key, RP1)
    \/ \E n \in BuilderSizes, maxEntries \in BuilderMaxEntries : Build(n, maxEntries)

MemorySpec == MemInit /\ [][MemoryNext]_vars

\* the sequence backwards
Reversed(seq) == [i \in DOMAIN seq |-> seq[Len(seq) + 1 - i]]

\* C14: a tree made by the builder gives its keys in key order when
\* iterated forwards (all) and in reverse key order when iterated
\* backwards (reverseAll)
C14_BuildThenIterate ==
    last.op = "builder.create" =>
        /\ all(memTree) = [i \in 1..last.started |-> MemKey(i)]
        /\ reverseAll(memTree) = Reversed([i \in 1..last.started |-> MemKey(i)])

\* the levels of the tree: the nodes from the root down to a leaf, the
\* leaf counted
RECURSIVE levelsFrom(_, _)
levelsFrom(objects, id) ==
    IF objects[id].isLeaf THEN 1
    ELSE 1 + levelsFrom(objects, objects[id].gtChild)

Levels(t) == levelsFrom(t.objects, t.root)

\* the keys the tree holds
KeyCount(t) == Len(all(t))

\* the tree was made by the builder
Built == history # << >> /\ history[1].call.op = "builder.create"

\* C15: the depth the tree records is the number of its levels, and a
\* tree of more keys than one leaf holds and no more than the leaves under
\* one node hold has depth exactly 2, be it made by the builder or grown
\* by add (1000 keys for 255 entries per node)
C15_DepthIsLevels ==
    /\ memTree.depth = Levels(memTree)
    /\ (KeyCount(memTree) > memTree.maxEntriesPerNode /\ Levels(memTree) = 2)
        => memTree.depth = 2

\* ---------------------------------------------------------------------
\* The tree of one leaf: an in-memory tree grown by add in key order and
\* written with toBinary(true, writer), the binary tree opened over the
\* bytes of the writer
\* ---------------------------------------------------------------------
\* new BPlusTree(maxEntriesPerNode, false) after add of the first n keys
RECURSIVE GrownTree(_, _)
GrownTree(maxEntriesPerNode, n) ==
    IF n = 0 THEN BPlusTree(maxEntriesPerNode, FALSE)
    ELSE mAdd(GrownTree(maxEntriesPerNode, n - 1), MemKey(n), RP1).tree

RootLeafMaxEntries == { 3, 4 }

RootLeafInit ==
    /\ \E maxEntriesPerNode \in RootLeafMaxEntries :
        \E n \in 1..maxEntriesPerNode : memTree = GrownTree(maxEntriesPerNode, n)
    /\ disk = toBinary(memTree, TRUE)
    /\ fst = << >>
    /\ originalByteLength = _readByteLength(disk, 0)
    /\ autoGrow \in BOOLEAN
    /\ last = Settled("none", KUndefined, << >>, [ err |-> NoError ], << >>, << >>, 0)
    /\ history = << >>
    /\ writer = << >>
    /\ locked = { }
    /\ tx = NewTX
    /\ NoCallers
    /\ cache = NoCache

\* the operations of the tree but those on ext_data, which a leaf written
\* by toBinary does not have
RootLeafNext ==
    \/ \E key \in Keys, recordPointer \in RecordPointers : Add(key, recordPointer)
    \/ \E key \in Keys, recordPointer \in { RP1, RP2 } : Remove(key, recordPointer)
    \/ \E key \in Keys : RemoveKey(key)
    \/ \E key \in { KeyB, KeyH, KeyI } : Update(key, RP2, RP1)
    \/ \E operations \in Transactions : Transaction(operations)

RootLeafSpec == RootLeafInit /\ [][RootLeafNext]_vars

\* the in-memory tree is a root node of one entry over the leaves of the
\* keys lower and upper, each leaf the neighbour of the other
SplitInTwo(t, lower, upper) ==
    LET root == t.objects[t.root]
        ltChild == t.objects[root.entries[1].ltChild]
        gtChild == t.objects[root.gtChild]
    IN
        /\ ~root.isLeaf
        /\ Len(root.entries) = 1
        /\ ltChild.isLeaf /\ keysOf(ltChild) = lower
        /\ gtChild.isLeaf /\ keysOf(gtChild) = upper
        /\ ltChild.nextLeaf = root.gtChild /\ gtChild.prevLeaf = root.entries[1].ltChild
        /\ ltChild.prevLeaf = MNull /\ gtChild.nextLeaf = MNull

\* the binary tree is a root node of one entry over two leaves of the keys
\* lower and upper, each leaf the neighbour of the other
BinarySplitInTwo(data, lower, upper) ==
    LET rootInfo == _readChild(data, _getReader(data).headerLength)
        leaves == TreeLeaves(data)
    IN
        /\ ~rootInfo.isLeaf
        /\ Len(_getNode(rootInfo).entries) = 1
        /\ Len(leaves) = 2
        /\ keysOf(leaves[1]) = lower /\ keysOf(leaves[2]) = upper
        /\ nextLeafIndex(leaves[1]) = leaves[2].index
        /\ prevLeafIndex(leaves[2]) = leaves[1].index
        /\ prevLeafIndex(leaves[1]) = 0 /\ nextLeafIndex(leaves[2]) = 0

\* the tree holds as many keys as a node holds entries, all in one leaf
FullRootLeaf(t) ==
    t.objects[t.root].isLeaf /\ KeyCount(t) = t.maxEntriesPerNode

\* C16: with 4 entries per node and the keys 1..4 added in order, the
\* add of a fifth, higher key makes the root a node of one entry over the
\* leaves {1,2} and {3,4,5}, linked in both directions: in the in-memory
\* tree, and in the binary tree through the split of its leaf
C16_FifthKeySplitsLeaf ==
    (memTree.maxEntriesPerNode = 4 /\ FullRootLeaf(memTree)) =>
        /\ SplitInTwo(mAdd(memTree, MemKey(5), RP1).tree,
                      << MemKey(1), MemKey(2) >>, << MemKey(3), MemKey(4), MemKey(5) >>)
        /\ (calls = 1 /\ last.op = "add" /\ last.key = KeyG) =>
            /\ last.err = NoError
            /\ BinarySplitInTwo(disk, << MemKey(1), MemKey(2) >>,
                                << MemKey(3), MemKey(4), KeyG >>)

\* the root of the tree is a leaf, or a node with room for one more entry
ParentNotFull(data) ==
    LET rootInfo == _readChild(data, _getReader(data).headerLength)
    IN  rootInfo.isLeaf
        \/ Len(_getNode(rootInfo).entries) < _getReader(data).entriesPerNode

\* C17: the first add to a tree that grows on demand (the allocator can
\* always supply space) and whose leaf is the root or lies under a node
\* with room resolves, also when the leaf with the new entry outgrows its
\* bytes or its number of entries: the leaf is rebuilt or split
C17_AddRecoversNoSpace ==
    (calls = 1 /\ last.op = "add" /\ autoGrow
        /\ ~_getReader(LastCall.disk).isUnique /\ ParentNotFull(LastCall.disk))
        => last.err = NoError

\* ---------------------------------------------------------------------
\* The reads of the tree: find, search, findLeaf, getFirstLeaf and
\* getLastLeaf, and the loads of ext_data they cause
\* ---------------------------------------------------------------------
\* what a read works on: the memory and the leaf locks
Reading == [ disk |-> disk, fst |-> fst, locked |-> locked ]

\* ThreadSafe.lock(leaf) is given, and lock.release()
lockLeaf(st, leaf) == [st EXCEPT !.locked = @ \cup { leaf.index }]
lockRelease(st, leaf) == [st EXCEPT !.locked = @ \ { leaf.index }]

\* loadValues that forgets lock.release()
loadValuesKeepingLock(st, leaf, entry) ==
    [ err |-> NoError, values |-> loadValues(st.disk, entry), st |-> lockLeaf(st, leaf) ]

\* entry.extData.loadValues() with its lock: loadHeader(true) takes the
\* lock of the leaf, the values are read, the lock is released
loadValuesLocked(st, leaf, entry) ==
    [ err |-> NoError, values |-> loadValues(st.disk, entry),
      st |-> lockRelease(lockLeaf(st, leaf), leaf) ]

\* a read that settles without a load of ext_data
ReadOf(st, err) == [ err |-> err, st |-> st ]

\* find(searchKey) once findLeaf has settled
findOnLeaf(st, searchKey, leaf) ==
    LET i == findEntryIndex(leaf.entries, searchKey)
    IN  IF leaf.err # NoError THEN ReadOf(st, leaf.err)
        ELSE IF i # 0 /\ leaf.entries[i].ext
        THEN ReadOf(loadValuesLocked(st, leaf, leaf.entries[i]).st, NoError)
        ELSE ReadOf(st, NoError)

\* search(op, param) gives the entries with their values by default:
\* `add` of search loads the values of an ext_data entry it matches
RECURSIVE searchAdd(_, _, _, _, _)
searchAdd(st, leaf, op, param, i) ==
    IF i > Len(leaf.entries) THEN st
    ELSE IF /\ \/ op = "==" /\ _isEqual(leaf.entries[i].key, param)
               \/ op = ">=" /\ ~_isLess(leaf.entries[i].key, param)
            /\ leaf.entries[i].ext
    THEN searchAdd(loadValuesLocked(st, leaf, leaf.entries[i]).st, leaf, op, param, i + 1)
    ELSE searchAdd(st, leaf, op, param, i + 1)

\* processLeaf of search(">=", param): the leaf, then the leaves after it
RECURSIVE searchFrom(_, _, _, _, _)
searchFrom(st, leaf, op, param, fuel) ==
    IF leaf.err # NoError THEN ReadOf(st, leaf.err)
    ELSE IF op = "==" \/ nextLeafIndex(leaf) = 0
    THEN ReadOf(searchAdd(st, leaf, op, param, 1), NoError)
    ELSE IF fuel = 0 THEN ReadOf(searchAdd(st, leaf, op, param, 1), "never settles")
    ELSE searchFrom(searchAdd(st, leaf, op, param, 1), getNext(st.disk, leaf), op, param,
                    fuel - 1)

\* processChild of getLastLeaf: the gt child, down to a leaf
RECURSIVE lastLeafDown(_, _, _, _)
lastLeafDown(data, info, nodeInfo, fuel) ==
    IF nodeInfo.isLeaf THEN _getLeaf(info, nodeInfo)
    ELSE IF fuel = 0 THEN FailedLeaf("never settles")
    ELSE IF _getNode(nodeInfo).err # NoError THEN FailedLeaf(_getNode(nodeInfo).err)
    ELSE lastLeafDown(data, info, _readChild(data, _getNode(nodeInfo).gtChildIndex),
                      fuel - 1)

\* BinaryBPlusTree.getLastLeaf()
getLastLeaf(data) ==
    lastLeafDown(data, _getReader(data), _readChild(data, _getReader(data).headerLength),
                 MaxDescent)

\* a read settles with r
ReadSettles(op, key, r) ==
    /\ disk' = r.st.disk
    /\ fst' = r.st.fst
    /\ locked' = r.st.locked
    /\ last' = Settled(op, key, << >>, r, << >>, << >>, 0)
    /\ history' = Append(history, [ call |-> last', disk |-> disk, fst |-> fst ])
    /\ UNCHANGED << cache, originalByteLength, autoGrow, writer, memTree, pc, request, held,
                    waiters, tx >>

\* find(key)
Find(key) ==
    /\ calls < MaxCalls
    /\ ReadSettles("find", key, findOnLeaf(Reading, key, findLeaf(disk, key)))

\* search(op, key)
Search(op, key) ==
    /\ calls < MaxCalls
    /\ ReadSettles(op, key, searchFrom(Reading, findLeaf(disk, key), op, key, MaxChain))

\* findLeaf(key)
FindLeaf(key) ==
    /\ calls < MaxCalls
    /\ ReadSettles("findLeaf", key, ReadOf(Reading, findLeaf(disk, key).err))

\* getFirstLeaf()
GetFirstLeaf ==
    /\ calls < MaxCalls
    /\ ReadSettles("getFirstLeaf", KUndefined, ReadOf(Reading, getFirstLeaf(disk).err))

\* getLastLeaf()
GetLastLeaf ==
    /\ calls < MaxCalls
    /\ ReadSettles("getLastLeaf", KUndefined, ReadOf(Reading, getLastLeaf(disk).err))

ReadOps == { "find", "==", ">=", "findLeaf", "getFirstLeaf", "getLastLeaf" }
ReadKeys == { KeyB, KeyG, KeyH }

ReadNext ==
    \/ \E key \in Keys, recordPointer \in RecordPointers : Add(key, recordPointer)
    \/ \E key \in Keys, recordPointer \in { RP1, RP2 } : Remove(key, recordPointer)
    \/ \E key \in Keys : RemoveKey(key)
    \/ \E key \in { KeyB, KeyH, KeyI } : Update(key, RP2, RP1)
    \/ \E operations \in Transactions : Transaction(operations)
    \/ \E key \in Keys, recordPointer \in RecordPointers : ExtAddValue(key, recordPointer)
    \/ \E key \in Keys, recordPointer \in RecordPointers : ExtRemoveValue(key, recordPointer)
    \/ \E key \in ReadKeys : Find(key)
    \/ \E key \in ReadKeys, op \in { "==", ">=" } : Search(op, key)
    \/ \E key \in ReadKeys : FindLeaf(key)
    \/ GetFirstLeaf
    \/ GetLastLeaf

ReadSpec == Init /\ [][ReadNext]_vars

MaxSteps == 3

TreeVars == << cache, disk, fst, originalByteLength, autoGrow, last, history, pc, request, held,
               waiters, writer, memTree, locked >>

TXInit ==
    /\ disk = create(FALSE, MaxEntriesPerNode, InitFillFactor, 0, PlainLeafs)
    /\ fst = << >>
    /\ originalByteLength = _readByteLength(disk, 0)
    /\ autoGrow = FALSE
    /\ last = Settled("none", KUndefined, << >>, [ err |-> NoError ], << >>, << >>, 0)
    /\ history = << >>
    /\ writer = << >>
    /\ locked = { }
    /\ tx = NewTX
    /\ memTree = BPlusTree(MaxEntriesPerNode, FALSE)
    /\ NoCallers
    /\ cache = NoCache

\* tx.queue({ name, action, rollback })
Queue(hasRollback, rollbackDoes) ==
    /\ tx.mode = "new"
    /\ Len(tx.queue) < MaxSteps
    /\ tx' = queueStep(tx, hasRollback, rollbackDoes)
    /\ UNCHANGED TreeVars

\* tx.execute(parallel)
Execute(parallel) ==
    /\ tx.mode = "new"
    /\ tx' = execute(tx, parallel)
    /\ UNCHANGED TreeVars

\* the promise of the action of step i resolves
ActionResolves(i) ==
    /\ i \in tx.pending
    /\ tx' = actionResolved(tx, i)
    /\ UNCHANGED TreeVars

\* the promise of the action of step i rejects
ActionRejects(i) ==
    /\ i \in tx.pending
    /\ tx' = actionRejected(tx, i)
    /\ UNCHANGED TreeVars

\* the catch of an earlier step of the sequential execute runs
Caught ==
    /\ tx.catching > 0
    /\ tx' = caught(tx)
    /\ UNCHANGED TreeVars

TXNext ==
    \/ \E hasRollback \in BOOLEAN, rollbackDoes \in RollbackDoes :
            Queue(hasRollback, rollbackDoes)
    \/ \E parallel \in BOOLEAN : Execute(parallel)
    \/ \E i \in 1..MaxSteps : ActionResolves(i)
    \/ \E i \in 1..MaxSteps : ActionRejects(i)
    \/ Caught

TXSpec == TXInit /\ [][TXNext]_vars

\* the steps of the events e, in the order the events happened
StepsOf(e) ==
    LET chosen == SelectSeq(tx.events, LAMBDA x : x.e = e)
    IN  [i \in DOMAIN chosen |-> chosen[i].step]

\* C19: the sequential execute calls the actions of the steps in order,
\* each after the one before it has resolved; once an action has rejected
\* no other action is called, and the rollbacks called are those of the
\* steps that resolved, and only those, the last one first
C19_SequentialRollsBack ==
    tx.mode = "sequential" =>
        /\ StepsOf("action") = [i \in 1..Len(StepsOf("action")) |-> i]
        /\ \A k \in DOMAIN tx.events :
            (tx.events[k].e = "action" /\ k > 1)
                => tx.events[k - 1] = TXEvent("resolved", tx.events[k].step - 1)
        /\ \A k \in DOMAIN tx.events : \A m \in DOMAIN tx.events :
            (tx.events[k].e = "rejected" /\ m > k) => tx.events[m].e # "action"
        /\ StepsOf("rejected") # << >>
            => StepsOf("rollback") = Reversed(StepsOf("resolved"))

\* C20: the parallel execute calls the actions of all steps before any of
\* them settles; a rollback is only called for a step whose action has
\* resolved, and no action settles after the rollback of its step was
\* called
C20_ParallelRollsBack ==
    tx.mode = "parallel" =>
        /\ SubSeq(tx.events, 1, Len(tx.queue)) = actionCalls(1, Len(tx.queue))
        /\ \A k \in DOMAIN tx.events :
            tx.events[k].e = "rollback"
                => /\ \E m \in 1..(k - 1) :
                        tx.events[m] = TXEvent("resolved", tx.events[k].step)
                   /\ \A m \in DOMAIN tx.events :
                        m > k => tx.events[m] \notin { TXEvent("resolved", tx.events[k].step),
                                                       TXEvent("rejected", tx.events[k].step) }

\* the rollbacks called that failed: their promise rejected, or the call
\* threw
FailedRollbacks ==
    { k \in DOMAIN tx.events : /\ tx.events[k].e = "rollback"
                               /\ tx.queue[tx.events[k].step].does \in { "rejects", "throws" } }

\* C21: once the action of a step has rejected and every catch has run,
\* execute has rejected, in both modes, with the error of the first action
\* that rejected; if a rollback called has failed, the rollbackError of
\* that error is the failure of a rollback
C21_RejectsWithStepError ==
    (StepsOf("rejected") # << >> /\ tx.catching = 0) =>
        /\ tx.settled = "rejected"
        /\ tx.err = TXError("action", StepsOf("rejected")[1])
        /\ FailedRollbacks # { } => tx.rollbackError.kind \in { "rollback", "thrown" }

\* ---------------------------------------------------------------------
\* The free-space allocator at work: _requestFreeSpace is called for a
\* number of bytes, and _registerFreeSpace for a block a request has given
\* and that is not released yet
\* ---------------------------------------------------------------------
MaxAllocCalls == 6

\* bytesRequired of the requests: one the free tail of the tree has room
\* for, and two it has not, two blocks of the smaller of which are more
\* than half the tree
RequestSizes == { 8, 56, 64 }

AllocInit ==
    /\ disk = create(FALSE, MaxEntriesPerNode, InitFillFactor, 0, PlainLeafs)
    /\ fst = << >>
    /\ originalByteLength = _readByteLength(disk, 0)
    /\ autoGrow \in BOOLEAN
    /\ last = Settled("none", KUndefined, << >>, [ err |-> NoError ], << >>, << >>, 0)
    /\ history = << >>
    /\ writer = << >>
    /\ locked = { }
    /\ tx = NewTX
    /\ memTree = BPlusTree(MaxEntriesPerNode, FALSE)
    /\ NoCallers
    /\ cache = NoCache

\* a call of the allocator settles with r: bytes is what was asked for,
\* block what was given or released, and from the call that gave
\* what is released
AllocSettles(op, r, bytes, block, from) ==
    /\ disk' = r.st.disk
    /\ fst' = r.st.fst
    /\ last' = Settled(op, KUndefined, << >>, r, << >>, << >>, 0)
    /\ history' = Append(history, [ call |-> last', disk |-> disk, fst |-> fst,
                                    bytes |-> bytes, block |-> block, of |-> from ])
    /\ UNCHANGED << cache, originalByteLength, autoGrow, pc, request, held, waiters, writer,
                    memTree, locked, tx >>

\* a request settles with r
RequestSettles(bytesRequired, r) ==
    AllocSettles("request", r, bytesRequired, [ index |-> r.index, length |-> r.length ], 0)

\* tree._requestFreeSpace(bytesRequired)
Request(bytesRequired) ==
    /\ calls < MaxAllocCalls
    /\ \E pick \in Picks :
        RequestSettles(bytesRequired, _requestFreeSpace(Memory, Tree, bytesRequired, pick))

\* the calls that gave a block no later call has released
Outstanding ==
    { k \in DOMAIN history :
        /\ history[k].call.op = "request"
        /\ history[k].call.err = NoError
        /\ \A m \in DOMAIN history : history[m].of # k }

\* tree._registerFreeSpace(index, length) of the block the k-th call gave
Release(k) ==
    /\ calls < MaxAllocCalls
    /\ k \in Outstanding
    /\ AllocSettles("release",
                    [ err |-> NoError,
                      st |-> _registerFreeSpace(Memory, history[k].block.index,
                                                history[k].block.length) ],
                    history[k].block.length, history[k].block, k)

AllocNext ==
    \/ \E bytesRequired \in RequestSizes : Request(bytesRequired)
    \/ \E k \in 1..MaxAllocCalls : Release(k)

AllocSpec == AllocInit /\ [][AllocNext]_vars

\* the reclaimed blocks the last call found that have room for n bytes
Fitting(n) == { i \in DOMAIN LastCall.fst : LastCall.fst[i].length >= n }

\* the block the last call gave or released
LastBlock == LastCall.block

\* C22: a request that finds a reclaimed block of at least the bytes asked
\* for resolves with the smallest such block, which leaves the reclaimed
\* list, all other blocks staying in their order; the free length and the
\* byte length of the header stay as they were
C22_BestFitReserved ==
    (history # << >> /\ last.op = "request" /\ Fitting(LastCall.bytes) # { }) =>
        /\ last.err = NoError
        /\ \E i \in Fitting(LastCall.bytes) :
              /\ LastCall.fst[i] = LastBlock
              /\ fst = RemoveAt(LastCall.fst, i)
        /\ \A j \in Fitting(LastCall.bytes) : LastBlock.length <= LastCall.fst[j].length
        /\ _getReader(disk).freeSpace = _getReader(LastCall.disk).freeSpace
        /\ _getReader(disk).byteLength = _getReader(LastCall.disk).byteLength

\* a request has found two reclaimed blocks with room, of different
\* lengths, and has resolved
C22_TwoBlocksFit ==
    /\ history # << >> /\ last.op = "request" /\ last.err = NoError
    /\ \E i, j \in Fitting(LastCall.bytes) : LastCall.fst[i].length < LastCall.fst[j].length

\* the header the last call found
InfoBefore == _getReader(LastCall.disk)

\* what a request that finds no reclaimed block with room does: it carves
\* a block of the bytes asked for off the free tail, at byteLength -
\* freeSpace, and writes the free length left to the header; a tail too
\* short is first made long enough if autoGrow is set, byteLength growing
\* by what lacked and the free length ending at 0; without autoGrow the
\* request rejects and changes nothing
TailServes ==
    IF InfoBefore.freeSpace >= LastCall.bytes
    THEN /\ last.err = NoError
         /\ LastBlock = [ index |-> InfoBefore.byteLength - InfoBefore.freeSpace,
                          length |-> LastCall.bytes ]
         /\ _getReader(disk).freeSpace = InfoBefore.freeSpace - LastCall.bytes
         /\ _getReader(disk).byteLength = InfoBefore.byteLength
         /\ fst = LastCall.fst
    ELSE IF autoGrow
    THEN /\ last.err = NoError
         /\ LastBlock = [ index |-> InfoBefore.byteLength - InfoBefore.freeSpace,
                          length |-> LastCall.bytes ]
         /\ _getReader(disk).byteLength
                = InfoBefore.byteLength + (LastCall.bytes - InfoBefore.freeSpace)
         /\ _getReader(disk).freeSpace = 0
         /\ fst = LastCall.fst
    ELSE /\ last.err = "not enough free space available"
         /\ disk = LastCall.disk
         /\ fst = LastCall.fst

\* C23 as claimed: every request that finds no reclaimed block with room
\* is served from the tail, grows the tree, or rejects for lack of space
C23_TailGrowOrFail ==
    (history # << >> /\ last.op = "request" /\ Fitting(LastCall.bytes) = { }) => TailServes

\* the reclaimed blocks the last call found are more than the waste
\* _requestFreeSpace allows: Math.round(_originalByteLength * 0.5)
TooMuchWaste == SumLengths(LastCall.fst) > RoundHalf(originalByteLength)

\* C23, amended: a request that finds no reclaimed block with room, and
\* reclaimed blocks within the waste allowed, is served from the tail,
\* grows the tree, or rejects for lack of space
C23_TailGrowOrFailWithinWaste ==
    (/\ history # << >> /\ last.op = "request"
     /\ Fitting(LastCall.bytes) = { } /\ ~TooMuchWaste) => TailServes

\* a request has grown the tree, a reclaimed block too short being there
C23_GrownForRequest ==
    /\ history # << >> /\ last.op = "request" /\ last.err = NoError
    /\ LastCall.fst # << >> /\ Fitting(LastCall.bytes) = { }
    /\ InfoBefore.freeSpace < LastCall.bytes
    /\ _getReader(disk).byteLength > InfoBefore.byteLength

\* C24: a request made when the reclaimed blocks are more than half the
\* original length fails with the error of the safety check and changes
\* nothing, whether or not a reclaimed block or the tail has room
C24_WasteCheckRejects ==
    (history # << >> /\ last.op = "request" /\ TooMuchWaste) =>
        /\ last.err = "too much space being wasted. tree rebuild is needed"
        /\ disk = LastCall.disk
        /\ fst = LastCall.fst

\* the block the last call released ends where the free tail began
AtTail == LastBlock.index + LastBlock.length = InfoBefore.byteLength - InfoBefore.freeSpace

\* C25: the release of a block that ends where the free tail begins adds
\* its length to the free length of the header and leaves the reclaimed
\* list alone; the release of any other block appends it to the reclaimed
\* list and writes nothing; either way free tail plus reclaimed bytes grow
\* by the length of the block
C25_ReleaseExtendsOrAppends ==
    (history # << >> /\ last.op = "release") =>
        /\ IF AtTail
           THEN /\ _getReader(disk).freeSpace = InfoBefore.freeSpace + LastBlock.length
                /\ fst = LastCall.fst
           ELSE /\ fst = Append(LastCall.fst, LastBlock)
                /\ disk = LastCall.disk
        /\ _getReader(disk).byteLength = InfoBefore.byteLength
        /\ _getReader(disk).freeSpace + SumLengths(fst)
              = InfoBefore.freeSpace + SumLengths(LastCall.fst) + LastBlock.length

\* a block has been released into the tail after another was put on the
\* reclaimed list
C25_BothReleases ==
    /\ history # << >> /\ last.op = "release" /\ AtTail
    /\ LastCall.fst # << >>

\* ---------------------------------------------------------------------
\* Leaves that split: trees whose leaves hold all the entries a leaf may
\* hold, under one node, to which keys are added
\* ---------------------------------------------------------------------
\* the i-th of the keys b, d, f, ... of the trees, and the keys added: a
\* and the keys c, i, o, u between them, one within each leaf
SplitKey(i) == Str(96 + 2 * i, 1)
SplitKeys == { Str(97, 1), Str(99, 1), Str(105, 1), Str(111, 1), Str(117, 1) }

\* n leaves of MaxEntriesPerNode entries each
FullLeafs(n) ==
    [i \in 1..n |-> [j \in 1..MaxEntriesPerNode |->
        E(SplitKey(MaxEntriesPerNode * (i - 1) + j), << RP1 >>)]]

\* trees of two to four leaves: the node of four leaves is full
SplitLeafCounts == { 2, 3, 4 }

SplitInit ==
    \E n \in SplitLeafCounts, allocatedBytes \in InitAllocatedBytes :
        /\ disk = create(FALSE, MaxEntriesPerNode, 100, allocatedBytes, FullLeafs(n))
        /\ fst = << >>
        /\ originalByteLength = _readByteLength(disk, 0)
        /\ autoGrow \in BOOLEAN
        /\ last = Settled("none", KUndefined, << >>, [ err |-> NoError ], << >>, << >>, 0)
        /\ history = << >>
        /\ writer = << >>
        /\ locked = { }
        /\ tx = NewTX
        /\ memTree = BPlusTree(MaxEntriesPerNode, FALSE)
        /\ NoCallers
        /\ cache = NoCache

SplitNext ==
    \/ \E key \in SplitKeys : Add(key, RP1)

SplitSpec == SplitInit /\ [][SplitNext]_vars

\* the leaf the last add was given by findLeaf, and that leaf with the new
\* entry put in, as add passes it to _splitLeaf
LeafFound == findLeaf(LastCall.disk, last.key)
InsertedBefore == FindMoreFrom(LeafFound.entries, last.key, 1)
LeafInserted ==
    [LeafFound EXCEPT !.entries =
        IF InsertedBefore = 0 THEN Append(@, NewLeafEntry(last.key, << last.recordPointer >>))
        ELSE InsertAt(@, InsertedBefore, NewLeafEntry(last.key, << last.recordPointer >>))]

\* the last call was an add of a new key to a leaf that is full, under a
\* node that is full
SplitUnderFullParent ==
    /\ history # << >> /\ last.op = "add"
    /\ LeafFound.err = NoError /\ LeafFound.hasParent
    /\ findEntryIndex(LeafFound.entries, last.key) = 0
    /\ Len(LeafFound.entries) = _getReader(LastCall.disk).entriesPerNode
    /\ Len(LeafFound.parentNode.entries) = _getReader(LastCall.disk).entriesPerNode

\* the keys of entries, in their order
EntryKeys(entries) == [i \in DOMAIN entries |-> entries[i].key]

\* C26: an add that has to split a leaf whose parent node is full rejects
\* with the error of the full parent, no block is taken from the allocator
\* and no byte is written, and the leaf object of add no longer holds the
\* entry add has put in
C26_FullParentFailsFast ==
    SplitUnderFullParent =>
        /\ last.err = CantAdd("Cannot split leaf because parent node is full")
        /\ disk = LastCall.disk
        /\ fst = LastCall.fst
        /\ EntryKeys(_splitLeaf([ disk |-> LastCall.disk, fst |-> LastCall.fst ], Tree,
                                LeafInserted, InsertedBefore, 1).entries)
              = EntryKeys(LeafFound.entries)

\* C26, amended: an add that has to split a leaf whose parent node is full
\* rejects with the error of the full parent, no block is taken from the
\* allocator and no byte is written; the leaf object of add still holds
\* the entry add has put in, undoAdd not being called
C26_FullParentRejectsUnwritten ==
    SplitUnderFullParent =>
        /\ last.err = CantAdd("Cannot split leaf because parent node is full")
        /\ disk = LastCall.disk
        /\ fst = LastCall.fst
        /\ EntryKeys(_splitLeaf([ disk |-> LastCall.disk, fst |-> LastCall.fst ], Tree,
                                LeafInserted, InsertedBefore, 1).entries)
              = EntryKeys(LeafInserted.entries)

\* an add has met a full leaf under a full node, the allocator having
\* room for a new leaf
C26_FullParentMet ==
    /\ SplitUnderFullParent
    /\ last.err # NoError
    /\ _getReader(LastCall.disk).freeSpace >= LeafFound.length

\* the last call was an add of a new key to a leaf that is full, under a
\* node with room, the allocator having the bytes of a leaf to give
SplitWithRoom ==
    /\ history # << >> /\ last.op = "add"
    /\ LeafFound.err = NoError /\ LeafFound.hasParent
    /\ findEntryIndex(LeafFound.entries, last.key) = 0
    /\ Len(LeafFound.entries) = _getReader(LastCall.disk).entriesPerNode
    /\ Len(LeafFound.parentNode.entries) < _getReader(LastCall.disk).entriesPerNode
    /\ LastCall.fst = << >>
    /\ (autoGrow \/ _getReader(LastCall.disk).freeSpace >= LeafFound.length)

\* the entries _splitLeaf leaves in the leaf, and those it moves
LowerHalf == WithoutLast(LeafInserted.entries, Len(LeafInserted.entries) \div 2)
UpperHalf == LastEntries(LeafInserted.entries, Len(LeafInserted.entries) \div 2)

\* the parent node of the leaf, read after the call
ParentAfter == findLeaf(disk, LowerHalf[1].key).parentNode

\* after the split the keys left reach the old leaf and the keys moved
\* reach one new leaf that holds them; the parent has a pivot keyed by the
\* first key moved; the leaf that was the gt child is the lt child of that
\* pivot, and the new leaf the gt child
SplitRouted ==
    /\ \A i \in DOMAIN LowerHalf :
          /\ findLeaf(disk, LowerHalf[i].key).index = LeafFound.index
          /\ EntryKeys(findLeaf(disk, LowerHalf[i].key).entries) = EntryKeys(LowerHalf)
    /\ \A i \in DOMAIN UpperHalf :
          /\ findLeaf(disk, UpperHalf[i].key).index # LeafFound.index
          /\ EntryKeys(findLeaf(disk, UpperHalf[i].key).entries) = EntryKeys(UpperHalf)
    /\ \E e \in DOMAIN ParentAfter.entries :
          /\ ParentAfter.entries[e].key = UpperHalf[1].key
          /\ ParentAfter.entries[e].ltChildIndex = LeafFound.index
    /\ LeafFound.parentEntry = 0 =>
          /\ ParentAfter.entries[Len(ParentAfter.entries)].key = UpperHalf[1].key
          /\ ParentAfter.gtChildIndex = findLeaf(disk, UpperHalf[1].key).index
    /\ LeafFound.parentEntry # 0 =>
          /\ Len(ParentAfter.entries) = Len(LeafFound.parentNode.entries) + 1
          /\ ParentAfter.entries[LeafFound.parentEntry + 1].ltChildIndex
                = findLeaf(disk, UpperHalf[1].key).index
          /\ ParentAfter.gtChildIndex = LeafFound.parentNode.gtChildIndex

\* C27: the split of a full leaf under a node with room, the allocator
\* having room, succeeds and leaves the new pivot, keyed by the first key
\* of the upper half, routing to the right leaves, for a leaf that was the
\* gt child and for one that was an lt child
C27_SplitRoutesNewPivot ==
    SplitWithRoom => (last.err = NoError /\ SplitRouted)

\* ---------------------------------------------------------------------
\* _rebuildLeaf as add calls it
\* ---------------------------------------------------------------------
MemoryBefore == [ disk |-> LastCall.disk, fst |-> LastCall.fst ]
EntryFound == findEntryIndex(LeafFound.entries, last.key)

\* the last call was an add that had its leaf rebuilt: the ext_data block
\* of the entry had no room for the value, or the leaf did not take the
\* entries written to it
RebuildCalled ==
    /\ history # << >> /\ last.op = "add"
    /\ LeafFound.err = NoError
    /\ ~(_getReader(LastCall.disk).isUnique /\ EntryFound # 0)
    /\ IF EntryFound # 0 /\ LeafFound.entries[EntryFound].ext
       THEN addValue(MemoryBefore, LeafFound.entries[EntryFound],
                     last.recordPointer).err # NoError
       ELSE IF EntryFound # 0
       THEN _writeLeaf(MemoryBefore,
                [LeafFound EXCEPT !.entries[EntryFound].values =
                    Append(@, last.recordPointer)]).err # NoError
       ELSE /\ Len(LeafInserted.entries) <= _getReader(LastCall.disk).entriesPerNode
            /\ _writeLeaf(MemoryBefore, LeafInserted).err # NoError

\* the leaf of the keys of the rebuilt leaf, read after the call
LeafRebuilt == findLeaf(disk, LeafFound.entries[1].key)

\* the leaf at index, read after the call
LeafAt(index) == _getLeaf(_getReader(disk), _readChild(disk, index))

\* the regions the allocator has to give: the blocks of the list of
\* reclaimed space and the free bytes at the end of the file
FreeRegions ==
    { [ index |-> fst[i].index, length |-> fst[i].length ] : i \in DOMAIN fst }
    \cup { [ index |-> _getReader(disk).byteLength - _getReader(disk).freeSpace,
             length |-> _getReader(disk).freeSpace ] }

Overlaps(region, index, length) ==
    region.index < index + length /\ index < region.index + region.length
Covers(region, index, length) ==
    region.index <= index /\ index + length <= region.index + region.length

\* how many blocks of the list of reclaimed space begin at index
RegisteredAt(index) == Cardinality({ i \in DOMAIN fst : fst[i].index = index })

\* the bytes of the leaf found and of its ext_data are free, in one region
OldRegionReleased ==
    /\ \E region \in FreeRegions :
          Covers(region, LeafFound.index, LeafFound.length + LeafFound.extLength)
    /\ Cardinality({ region \in FreeRegions :
            Overlaps(region, LeafFound.index, LeafFound.length + LeafFound.extLength) }) = 1
    /\ RegisteredAt(LeafFound.index) <= 1

\* the parent node points at a leaf that is no longer the leaf found, and
\* the previous leaf and the next leaf point at that leaf
PointersAtNewLeaf ==
    /\ LeafRebuilt.err = NoError
    /\ LeafRebuilt.index # LeafFound.index
    /\ LeafRebuilt.parentEntry = LeafFound.parentEntry
    /\ prevLeafIndex(LeafFound) # 0 =>
          /\ prevLeafIndex(LeafRebuilt) = prevLeafIndex(LeafFound)
          /\ nextLeafIndex(LeafAt(prevLeafIndex(LeafFound))) = LeafRebuilt.index
    /\ nextLeafIndex(LeafFound) # 0 =>
          /\ nextLeafIndex(LeafRebuilt) = nextLeafIndex(LeafFound)
          /\ prevLeafIndex(LeafAt(nextLeafIndex(LeafFound))) = LeafRebuilt.index

\* the rebuild was rejected when it gave the new leaf its next leaf
RejectedByNextLeaf ==
    last.err = CantAdd(RebuildError("TypeError: Cannot read property 'info' of undefined"))

\* C28: an add that has its leaf rebuilt is resolved with the previous
\* leaf, the next leaf and the parent pointing at the new leaf and the bytes
\* of the old leaf and its ext_data released once; an add whose rebuild
\* failed has released none of them; and the rebuild of a leaf that has a
\* next leaf is not rejected for having one
C28_RebuildRepointsThenReleases ==
    RebuildCalled =>
        /\ last.err = NoError => (PointersAtNewLeaf /\ OldRegionReleased)
        /\ last.err # NoError =>
              ~\E region \in FreeRegions :
                    Overlaps(region, LeafFound.index, LeafFound.length + LeafFound.extLength)
        /\ nextLeafIndex(LeafFound) # 0 => ~RejectedByNextLeaf

\* ---------------------------------------------------------------------
\* Values added to a key whose values are in ext_data
\* ---------------------------------------------------------------------
\* record pointers of the lengths that fit the block of KeyH, that fit it
\* once the ext_data has grown, and that do not
ExtPointerLengths == { 1, 13, 20, 30 }
RecordPointerOf(length) == [i \in 1..length |-> 7]

ExtInit ==
    \E allocatedBytes \in InitAllocatedBytes, grow \in BOOLEAN :
        /\ disk = create(FALSE, MaxEntriesPerNode, InitFillFactor, allocatedBytes, ExtLeafs)
        /\ fst = << >>
        /\ originalByteLength = _readByteLength(disk, 0)
        /\ autoGrow = grow
        /\ last = Settled("none", KUndefined, << >>, [ err |-> NoError ], << >>, << >>, 0)
        /\ history = << >>
        /\ writer = << >>
        /\ locked = { }
        /\ tx = NewTX
        /\ memTree = BPlusTree(MaxEntriesPerNode, FALSE)
        /\ NoCallers
        /\ cache = NoCache

ExtNext ==
    \/ \E length \in ExtPointerLengths : Add(KeyH, RecordPointerOf(length))
    \/ \E length \in ExtPointerLengths : ExtAddValue(KeyH, RecordPointerOf(length))

ExtSpec == ExtInit /\ [][ExtNext]_vars

\* the last call was given a value for an ext_data entry whose block has
\* fewer free bytes than the value takes
BlockFull ==
    /\ history # << >> /\ last.op \in { "add", "addValue" }
    /\ LeafFound.err = NoError
    /\ EntryFound # 0 /\ LeafFound.entries[EntryFound].ext
    /\ Len(getLeafEntryValueBytes(last.recordPointer))
         > loadHeader(LastCall.disk, LeafFound.entries[EntryFound]).freeBytes

\* the values of the key of the last call, read before and after it
ValuesBefore == loadValues(LastCall.disk, LeafFound.entries[EntryFound])
ValuesAfter == loadValues(disk, EntryOf(last.key).entry)

\* C29: addValue on a block without room for the value rejects with the
\* error of the full block and writes nothing; add, the allocator having
\* room, then has the leaf rebuilt with its ext_data grown and resolves
\* with the value stored after the values the key had
C29_FullBlockRebuilt ==
    /\ (BlockFull /\ last.op = "addValue") =>
          /\ last.err = "No space left to add value to leaf ext_data_block"
          /\ disk = LastCall.disk /\ fst = LastCall.fst
    /\ (BlockFull /\ last.op = "add" /\ autoGrow /\ LastCall.fst = << >>) =>
          /\ last.err = NoError
          /\ EntryOf(last.key).found
          /\ ValuesAfter = Append(ValuesBefore, last.recordPointer)
          /\ LeafRebuilt.extLength = CeilTimes11(LeafFound.extLength)

\* ---------------------------------------------------------------------
\* The allocator while other operations are in progress
\* ---------------------------------------------------------------------
\* adds that have their leaf rebuilt, with removes and updates
AllocatorRequests ==
    { [ op |-> "add", key |-> KeyM, recordPointer |-> RP1 ],
      [ op |-> "add", key |-> KeyA, recordPointer |-> RPBig ],
      [ op |-> "add", key |-> KeyI, recordPointer |-> RP1 ],
      [ op |-> "remove key", key |-> KeyH, recordPointer |-> << >> ],
      [ op |-> "remove", key |-> KeyB, recordPointer |-> RP1 ],
      [ op |-> "update", key |-> KeyH, recordPointer |-> RP2 ] }

AllocatorNext ==
    \/ \E p \in Callers, r \in AllocatorRequests : CallAdd(p, r)
    \/ \E p \in Callers : Locked(p)
    \/ \E p \in Callers, r \in AllocatorRequests : CallUnlocked(p, r)
    \/ \E p \in Callers : FoundLeaf(p)
    \/ \E p \in Callers : AddSettles(p)
    \/ \E p \in Callers : RemoveSettles(p)
    \/ \E p \in Callers : UpdateSettles(p)

AllocatorSpec == GrowInit /\ [][AllocatorNext]_vars

\* what _requestFreeSpace, _registerFreeSpace and _growTree read and write:
\* byteLength and freeSpace of the header and the list of reclaimed space
AllocatorState(data, blocks) ==
    << _getReader(data).byteLength, _getReader(data).freeSpace, blocks >>

\* a caller is in add, past ThreadSafe.lock
InAdd(p) == request[p].op = "add" /\ pc[p] \in { "findLeaf", "write" }

\* C30: the allocator is used under the lock of the tree id only: a step
\* that changes byteLength, freeSpace or the list of reclaimed space is the
\* step of a caller that holds the lock, every caller in add holds the
\* lock, and no two callers are in add at once
C30_AllocatorUnderLock ==
    [][ /\ AllocatorState(disk', fst') # AllocatorState(disk, fst) =>
              \E p \in Callers : HoldsLock(p) /\ pc[p] = "write" /\ pc'[p] = "done"
        /\ \A p \in Callers : InAdd(p) => HoldsLock(p)
        /\ \A p, q \in Callers : (p # q /\ InAdd(p)) => ~InAdd(q) ]_vars

\* an add has taken bytes from the allocator while the other caller was
\* waiting for the lock or between its findLeaf and its write
C30_AllocatedWhileOthersRun ==
    /\ history # << >> /\ last.op = "add"
    /\ AllocatorState(disk, fst) # AllocatorState(LastCall.disk, LastCall.fst)
    /\ \E q \in Callers : pc[q] \in { "lock", "findLeaf", "write" }

\* ---------------------------------------------------------------------
\* addValue and removeValue of ext_data called while another is in
\* progress.  Each caller has the entry from its own findLeaf; the lock of
\* the leaf is one lock per leaf index.
\* ---------------------------------------------------------------------
ExtRequests ==
    { [ op |-> "addValue", key |-> KeyH, recordPointer |-> RP2 ],
      [ op |-> "addValue", key |-> KeyH, recordPointer |-> RecordPointerOf(13) ],
      [ op |-> "removeValue", key |-> KeyH, recordPointer |-> RP1 ],
      [ op |-> "removeValue", key |-> KeyH, recordPointer |-> RPBig ] }

\* what a caller has of the entry: the entry, the index of its leaf, the
\* header and the values it has loaded, and whether it has the leaf lock
ExtHeld(entry, leafIndex, header, values, lock) ==
    [ entry |-> entry, leafIndex |-> leafIndex, header |-> header, values |-> values,
      lock |-> lock ]

\* addValue or removeValue is called on the entry findLeaf gives:
\* loadHeader(true) asks for the lock of the leaf
CallExt(p, r) ==
    /\ pc[p] = "idle"
    /\ EntryOf(r.key).found
    /\ request' = [request EXCEPT ![p] = r]
    /\ held' = [held EXCEPT ![p] =
                    ExtHeld(EntryOf(r.key).entry, findLeaf(disk, r.key).index,
                            [ length |-> 0, freeBytes |-> 0 ], << >>, FALSE)]
    /\ pc' = [pc EXCEPT ![p] = "leafLock"]
    /\ UNCHANGED << cache, tx, locked, memTree, writer, disk, fst, originalByteLength, autoGrow,
                    last, history, waiters >>

\* loadHeader(true): the lock is given and kept, the header is read
HeaderLoaded(p) ==
    /\ pc[p] = "leafLock"
    /\ held[p].leafIndex \notin locked
    /\ locked' = locked \cup { held[p].leafIndex }
    /\ held' = [held EXCEPT ![p].header = loadHeader(disk, held[p].entry),
                            ![p].lock = TRUE]
    /\ pc' = [pc EXCEPT ![p] = IF request[p].op = "addValue" THEN "extWrite"
                                ELSE "extValues"]
    /\ UNCHANGED << cache, tx, memTree, writer, disk, fst, originalByteLength, autoGrow, last,
                    history, request, waiters >>

\* the rest of loadValues in removeValue: the values are read and the
\* lock is released
ValuesLoaded(p) ==
    /\ pc[p] = "extValues"
    /\ locked' = locked \ { held[p].leafIndex }
    /\ held' = [held EXCEPT ![p].values = loadValues(disk, held[p].entry),
                            ![p].lock = FALSE]
    /\ pc' = [pc EXCEPT ![p] = "extWrite"]
    /\ UNCHANGED << cache, tx, memTree, writer, disk, fst, originalByteLength, autoGrow, last,
                    history, request, waiters >>

\* a call on ext_data settles with r
ExtSettles(p, r) ==
    /\ disk' = r.st.disk
    /\ fst' = r.st.fst
    /\ last' = Settled(request[p].op, request[p].key, request[p].recordPointer, r,
                       << >>, << >>, 0)
    /\ history' = Append(history, [ call |-> last', disk |-> disk, fst |-> fst ])
    /\ pc' = [pc EXCEPT ![p] = "done"]
    /\ UNCHANGED << cache, originalByteLength, autoGrow, writer, memTree, tx, request, waiters >>

\* the rest of addValue, with the header it has loaded, and lock.release()
AddValueWrites(p) ==
    /\ pc[p] = "extWrite"
    /\ request[p].op = "addValue"
    /\ ExtSettles(p, addValueLoaded(Memory, held[p].entry,
                        getLeafEntryValueBytes(request[p].recordPointer), held[p].header))
    /\ locked' = locked \ { held[p].leafIndex }
    /\ held' = [held EXCEPT ![p].lock = FALSE]

\* the rest of removeValue, with the header and the values it has loaded
RemoveValueWrites(p) ==
    /\ pc[p] = "extWrite"
    /\ request[p].op = "removeValue"
    /\ ExtSettles(p, removeValueLoaded(Memory, held[p].entry, held[p].header,
                        held[p].values,
                        findValueIndex(held[p].values, request[p].recordPointer)))
    /\ UNCHANGED << cache, locked, held >>

ExtLockNext ==
    \/ \E p \in Callers, r \in ExtRequests : CallExt(p, r)
    \/ \E p \in Callers : HeaderLoaded(p)
    \/ \E p \in Callers : ValuesLoaded(p)
    \/ \E p \in Callers : AddValueWrites(p)
    \/ \E p \in Callers : RemoveValueWrites(p)

ExtLockSpec == ExtInit /\ [][ExtLockNext]_vars

\* a caller has loaded the header or the values and has not yet written
BetweenLoadAndWrite(p) == pc[p] \in { "extValues", "extWrite" }

\* C31: in addValue and in removeValue the caller keeps the lock of the
\* leaf from the load of the header until it has written, so no two
\* callers are between their load and their write on one leaf
C31_LeafLockHeldUntilWritten ==
    /\ \A p \in Callers : BetweenLoadAndWrite(p) => held[p].lock
    /\ \A p, q \in Callers :
          (p # q /\ BetweenLoadAndWrite(p) /\ BetweenLoadAndWrite(q))
              => held[p].leafIndex # held[q].leafIndex

\* ---------------------------------------------------------------------
\* search('in'), search('<') and search('<=') of the tree in memory and of
\* the binary tree, both holding the same string keys
\* ---------------------------------------------------------------------
_isLessOrEqual(val1, val2) ==
    IF IsNull(val1) THEN TRUE
    ELSE IF IsNull(val2) THEN FALSE
    ELSE IF TypeRank(val1) # TypeRank(val2) THEN TypeRank(val1) < TypeRank(val2)
    ELSE val1 = val2 \/ SeqLess(KeyData(val1), KeyData(val2))

\* !searchKey: undefined, the empty string and false
Falsy(key) ==
    \/ IsNull(key)
    \/ (KeyType(key) = KEY_TYPE_STRING /\ KeyData(key) = << >>)
    \/ (KeyType(key) = KEY_TYPE_BOOLEAN /\ KeyData(key) = << 0 >>)

\* String(key): "false" and "true" of the booleans, the string itself
StringOf(key) ==
    IF KeyType(key) = KEY_TYPE_BOOLEAN
    THEN IF KeyData(key) = << 0 >> THEN << 102, 97, 108, 115, 101 >>
         ELSE << 116, 114, 117, 101 >>
    ELSE KeyData(key)

\* a > b: of two strings by code unit, of two booleans as numbers, and of
\* a boolean and a string as numbers, the string being NaN
jsMore(a, b) ==
    /\ KeyType(a) = KeyType(b)
    /\ SeqLess(KeyData(b), KeyData(a))

\* array.sort(): by the code units of String(element)
RECURSIVE sortInsert(_, _)
sortInsert(sorted, key) ==
    IF sorted = << >> THEN << key >>
    ELSE IF SeqLess(StringOf(key), StringOf(Head(sorted))) THEN << key >> \o sorted
    ELSE << Head(sorted) >> \o sortInsert(Tail(sorted), key)

RECURSIVE sort(_)
sort(list) ==
    IF list = << >> THEN << >> ELSE sortInsert(sort(Tail(list)), Head(list))

\* array.shift(): the first element, undefined when there is none
shift(list) == IF list = << >> THEN KUndefined ELSE Head(list)
shifted(list) == IF list = << >> THEN << >> ELSE Tail(list)

\* what a search gives: the keys of the entries in the order they were
\* added, and the leaves it has read, in the order it read them
Found(err, keys, visited) == [ err |-> err, keys |-> keys, visited |-> visited ]

\* processLeaf of BinaryBPlusTree.search('in', param)
RECURSIVE searchInLeaf(_, _, _, _, _, _)
searchInLeaf(data, leaf, searchKey, sorted, keys, visited) ==
    LET added == IF findEntryIndex(leaf.entries, searchKey) # 0
                 THEN Append(keys, searchKey) ELSE keys
    IN
        IF leaf.err # NoError THEN Found(leaf.err, keys, visited)
        ELSE IF Falsy(shift(sorted)) THEN Found(NoError, added, visited)
        ELSE IF leaf.entries = << >>
        THEN Found("TypeError: Cannot read property 'key' of undefined", added, visited)
        ELSE IF jsMore(shift(sorted), leaf.entries[Len(leaf.entries)].key)
        THEN searchInLeaf(data, findLeaf(data, shift(sorted)), shift(sorted),
                          shifted(sorted), added,
                          Append(visited, findLeaf(data, shift(sorted)).index))
        ELSE searchInLeaf(data, leaf, shift(sorted), shifted(sorted), added, visited)

\* BinaryBPlusTree.search('in', param)
searchIn(data, param) ==
    searchInLeaf(data, findLeaf(data, shift(sort(param))), shift(sort(param)),
                 shifted(sort(param)), << >>,
                 << findLeaf(data, shift(sort(param))).index >>)

\* processLeaf of BinaryBPlusTree.search('<' or '<=', param): the entries
\* of the leaf up to the first that does not satisfy, then the next leaf
RECURSIVE searchLessLeaf(_, _, _, _, _, _, _)
searchLessLeaf(data, leaf, op, param, keys, visited, fuel) ==
    LET stopAt == findIndexFrom(leaf.entries,
                    LAMBDA entry : ~(IF op = "<=" THEN _isLessOrEqual(entry.key, param)
                                     ELSE _isLess(entry.key, param)), 1)
        added == keys \o [i \in 1..(IF stopAt = 0 THEN Len(leaf.entries) ELSE stopAt - 1)
                            |-> leaf.entries[i].key]
    IN
        IF leaf.err # NoError THEN Found(leaf.err, keys, visited)
        ELSE IF stopAt = 0 /\ nextLeafIndex(leaf) # 0
        THEN IF fuel = 0 THEN Found("never settles", added, visited)
             ELSE searchLessLeaf(data, getNext(data, leaf), op, param, added,
                                 Append(visited, nextLeafIndex(leaf)), fuel - 1)
        ELSE Found(NoError, added, visited)

\* BinaryBPlusTree.search('<' or '<=', param)
searchLess(data, op, param) ==
    searchLessLeaf(data, getFirstLeaf(data), op, param, << >>,
                   << getFirstLeaf(data).index >>, MaxChain)

\* _isEqual(entry.key, val) in BPlusTree.search('in', val), val being the
\* array: typeof val is 'object', and so is typeof of the comparable value
\* of a key only when it is null, which is not === an array
_isEqualToArray(key) == IsNull(key) /\ ~IsNull(key)

\* the loop of BPlusTree.search('in', val)
RECURSIVE mSearchInLoop(_, _, _, _, _, _, _)
mSearchInLoop(tree, searchKey, sorted, leaf, trySameLeaf, keys, visited) ==
    LET leafNow == IF trySameLeaf THEN leaf ELSE mFindLeaf(tree, tree.root, searchKey)
        visitedNow == IF trySameLeaf THEN visited ELSE Append(visited, leafNow)
        entryIndex == findIndexFrom(tree.objects[leafNow].entries,
                                    LAMBDA entry : _isEqualToArray(entry.key), 1)
    IN
        IF Falsy(searchKey) THEN Found(NoError, keys, visited)
        ELSE IF entryIndex = 0 /\ trySameLeaf
        THEN mSearchInLoop(tree, searchKey, sorted, leafNow, FALSE, keys, visitedNow)
        ELSE mSearchInLoop(tree, shift(sorted), shifted(sorted), leafNow, TRUE,
                           IF entryIndex # 0
                           THEN Append(keys, tree.objects[leafNow].entries[entryIndex].key)
                           ELSE keys,
                           visitedNow)

\* BPlusTree.search('in', val)
mSearchIn(tree, val) ==
    mSearchInLoop(tree, shift(sort(val)), shifted(sort(val)), MNull, FALSE, << >>, << >>)

\* the keys of the entries that satisfy, from the last entry to the first
RECURSIVE lessKeysDown(_, _, _, _)
lessKeysDown(entries, op, val, i) ==
    IF i = 0 THEN << >>
    ELSE (IF (op = "<=" /\ _isLessOrEqual(entries[i].key, val))
             \/ (op = "<" /\ _isLess(entries[i].key, val))
          THEN << entries[i].key >> ELSE << >>)
         \o lessKeysDown(entries, op, val, i - 1)

\* the loop of BPlusTree.search('<' or '<=', val): the leaf, then prevLeaf
RECURSIVE mSearchLessLoop(_, _, _, _, _, _)
mSearchLessLoop(tree, leaf, op, val, keys, visited) ==
    IF leaf = MNull THEN Found(NoError, keys, visited)
    ELSE mSearchLessLoop(tree, tree.objects[leaf].prevLeaf, op, val,
            keys \o lessKeysDown(tree.objects[leaf].entries, op, val,
                                 Len(tree.objects[leaf].entries)),
            Append(visited, leaf))

\* the search that reads the leaf of val only
mSearchLessOneLeaf(tree, op, val) ==
    Found(NoError,
          lessKeysDown(tree.objects[mFindLeaf(tree, tree.root, val)].entries, op, val,
                       Len(tree.objects[mFindLeaf(tree, tree.root, val)].entries)),
          << mFindLeaf(tree, tree.root, val) >>)

\* BPlusTree.search('<' or '<=', val)
mSearchLess(tree, op, val) ==
    mSearchLessLoop(tree, mFindLeaf(tree, tree.root, val), op, val, << >>, << >>)

KeyFalse == << KEY_TYPE_BOOLEAN, 0 >>
KeyEmpty == Str(97, 0)
KeyC == Str(99, 1)
KeyJ == Str(106, 1)

\* the keys both trees hold, in the order of the trees
SearchKeys == << KeyFalse, KeyEmpty, KeyB, KeyD, KeyF, KeyH >>

\* the leafs the binary tree is created from
SearchLeafs ==
    { << << E(KeyFalse, << RP1 >>), E(KeyEmpty, << RP1 >>) >>,
         << E(KeyB, << RP1 >>), E(KeyD, << RP1 >>) >>,
         << E(KeyF, << RP1 >>), E(KeyH, << RP1 >>) >> >>,
      << << E(KeyFalse, << RP1 >>), E(KeyEmpty, << RP1 >>), E(KeyB, << RP1 >>) >>,
         << E(KeyD, << RP1 >>), E(KeyF, << RP1 >>), E(KeyH, << RP1 >>) >> >> }

\* tree.add of every key of the list
RECURSIVE addAll(_, _)
addAll(tree, keys) ==
    IF keys = << >> THEN tree ELSE addAll(mAdd(tree, Head(keys), RP1).tree, Tail(keys))

\* the lists search('in') is called with
NeedleLists ==
    { << KeyB >>, << KeyC >>, << KeyB, KeyH >>, << KeyH, KeyB >>, << KeyD, KeyF, KeyB >>,
      << KeyJ, KeyD >>, << KeyB, KeyEmpty >>, << KeyH, KeyFalse >>, << KeyFalse, KeyD >>,
      << KeyEmpty >>, << KeyF, KeyC, KeyH >> }

\* the values search('<') and search('<=') are called with
LessValues == { KeyFalse, KeyEmpty, KeyA, KeyB, KeyC, KeyD, KeyG, KeyH, KeyJ }

MaxSearches == 2

SearchInit ==
    /\ \E leafs \in SearchLeafs, fillFactor \in { InitFillFactor, 100 } :
        disk = create(FALSE, MaxEntriesPerNode, fillFactor, 0, leafs)
    /\ fst = << >>
    /\ originalByteLength = _readByteLength(disk, 0)
    /\ autoGrow = FALSE
    /\ last = Settled("none", KUndefined, << >>, [ err |-> NoError ], << >>, << >>, 0)
    /\ history = << >>
    /\ writer = << >>
    /\ locked = { }
    /\ tx = NewTX
    /\ NoCallers
    /\ cache = NoCache
    /\ \E maxEntriesPerNode \in MemMaxEntries, uniqueKeys \in BOOLEAN :
        memTree = addAll(BPlusTree(maxEntriesPerNode, uniqueKeys), SearchKeys)

\* what the two searches of one call gave
Searched(op, key, given, memory, binary) ==
    [ op |-> op, key |-> key, recordPointer |-> << >>, err |-> binary.err,
      given |-> given, operations |-> << >>, started |-> 0,
      memory |-> memory, binary |-> binary ]

\* tree.search('in', needles) of both trees
SearchIn(needles) ==
    /\ Len(history) < MaxSearches
    /\ last' = Searched("in", KUndefined, needles, mSearchIn(memTree, needles),
                        searchIn(disk, needles))
    /\ history' = Append(history, [ call |-> last', disk |-> disk, fst |-> fst ])
    /\ UNCHANGED << cache, disk, fst, originalByteLength, autoGrow, pc, request, held, waiters,
                    writer, memTree, locked, tx >>

\* tree.search(op, val) of both trees, op being '<' or '<='
SearchLess(op, val) ==
    /\ Len(history) < MaxSearches
    /\ last' = Searched(op, val, << >>, mSearchLess(memTree, op, val),
                        searchLess(disk, op, val))
    /\ history' = Append(history, [ call |-> last', disk |-> disk, fst |-> fst ])
    /\ UNCHANGED << cache, disk, fst, originalByteLength, autoGrow, pc, request, held, waiters,
                    writer, memTree, locked, tx >>

SearchNext ==
    \/ \E needles \in NeedleLists : SearchIn(needles)
    \/ \E op \in { "<", "<=" }, val \in LessValues : SearchLess(op, val)

SearchSpec == SearchInit /\ [][SearchNext]_vars

Range(list) == { list[i] : i \in DOMAIN list }

\* the keys of the trees that equal some needle
KeysIn(needles) == Range(SearchKeys) \cap Range(needles)

\* C32: search('in', needles) gives exactly the entries whose key equals
\* some needle, whatever the order of the needles and also when a needle
\* is the empty string or false, in the tree in memory and in the binary
\* tree
C32_SearchInExact ==
    last.op = "in" =>
        /\ last.binary.err = NoError
        /\ Range(last.binary.keys) = KeysIn(last.given)
        /\ Range(last.memory.keys) = KeysIn(last.given)

IsLessSearch == last.op \in { "<", "<=" }

\* the keys of the trees that satisfy the predicate of the last search
KeysLess ==
    { key \in Range(SearchKeys) :
        IF last.op = "<" THEN _isLess(key, last.key) ELSE _isLessOrEqual(key, last.key) }

\* both trees gave every key that satisfies and no other, each once: the
\* binary tree the first keys of the trees in their order, the tree in
\* memory the same keys from the last to the first
LessResultsExact ==
    /\ last.binary.err = NoError
    /\ last.memory.err = NoError
    /\ Range(last.binary.keys) = KeysLess
    /\ last.binary.keys = SubSeq(SearchKeys, 1, Cardinality(KeysLess))
    /\ last.memory.keys = Reversed(last.binary.keys)

\* the tree in memory starts at findLeaf(val) and ends at the first leaf
MemoryWalksBack ==
    /\ last.memory.visited[1] = mFindLeaf(memTree, memTree.root, last.key)
    /\ last.memory.visited[Len(last.memory.visited)] = firstLeaf(memTree)

C34_LockReleasedWhenSettled ==
    (last.op \in { "add", "rebuild" } /\ last.err # "never settles") => waiters = << >>

\* the blocks the allocator has given and that are not released
HandedOut == { history[k].block : k \in Outstanding }

\* the regions the allocator has to give that are not empty
RegionsToGive == { region \in FreeRegions : region.length > 0 }

\* C35: whatever the requests and releases, a block the allocator gives
\* overlaps no block given and not released, overlaps no live node, leaf or
\* ext_data and ends within the byte length of the tree; what is left to
\* give overlaps none of these either, and the free length of the header is
\* never negative
C35_AllocatorGivesFreeBytes ==
    /\ \A k, m \in Outstanding :
          k # m => ~Overlaps(history[k].block, history[m].block.index,
                             history[m].block.length)
    /\ \A block \in HandedOut :
          /\ \A record \in LiveRecords(disk) :
                ~Overlaps(record, block.index, block.length)
          /\ block.index + block.length <= _getReader(disk).byteLength
          /\ \A region \in RegionsToGive : ~Overlaps(region, block.index, block.length)
    /\ \A region \in RegionsToGive :
          /\ \A record \in LiveRecords(disk) :
                ~Overlaps(record, region.index, region.length)
          /\ region.index + region.length <= _getReader(disk).byteLength
          /\ \A other \in RegionsToGive :
                other # region => ~Overlaps(other, region.index, region.length)
    /\ _getReader(disk).freeSpace >= 0

\* a request was given a reclaimed block while another block was given and
\* not released, and the tree had grown
C35_GivenAmongOthers ==
    /\ history # << >> /\ last.op = "request" /\ last.err = NoError
    /\ Fitting(LastCall.bytes) # { }
    /\ Cardinality(Outstanding) >= 2
    /\ _getReader(disk).byteLength > originalByteLength

\* the bytes of the tree that are neither in the free tail nor on the list
\* of reclaimed space
UsedBytes(data, blocks) ==
    _getReader(data).byteLength - _getReader(data).freeSpace - SumLengths(blocks)

\* C36: an add whose _rebuildLeaf or _splitLeaf was called and rejected
\* leaves as many bytes in use as before the call: what _requestFreeSpace
\* gave is back in the free tail or on the list of reclaimed space
C36_FailedRebuildReturnsSpace ==
    ((RebuildCalled \/ SplitWithRoom) /\ last.err # NoError) =>
        UsedBytes(disk, fst) = UsedBytes(LastCall.disk, LastCall.fst)

\* ---------------------------------------------------------------------
\* add when ThreadSafe.lock(this.id) rejects: a caller that waits for the
\* lock behind its holder is refused it when its timeout has passed
\* ---------------------------------------------------------------------
LockTimeout == "LockTimeout"

\* the catch at the end of the chain of add: lock.release(), then the
\* error is thrown again.  `lock` is assigned in the then of
\* ThreadSafe.lock, and is undefined when the lock was not given.
addCatch(lockGiven, err) ==
    IF lockGiven THEN err
    ELSE "TypeError: Cannot read property 'release' of undefined"

\* what add settled with when the lock was refused with lockErr
Refused(key, recordPointer, err, lockErr) ==
    [ op |-> "add", key |-> key, recordPointer |-> recordPointer, err |-> err,
      given |-> << >>, operations |-> << >>, started |-> 0, lockErr |-> lockErr ]

\* ThreadSafe.lock(this.id) rejects for a caller that waits behind the
\* holder of the lock: the thens of add are passed over and its catch runs
LockTimesOut(p) ==
    /\ pc[p] = "lock"
    /\ Head(waiters) # p
    /\ waiters' = SelectSeq(waiters, LAMBDA q : q # p)
    /\ last' = Refused(request[p].key, request[p].recordPointer,
                       addCatch(FALSE, LockTimeout), LockTimeout)
    /\ history' = Append(history, [ call |-> last', disk |-> disk, fst |-> fst ])
    /\ pc' = [pc EXCEPT ![p] = "done"]
    /\ UNCHANGED << cache, disk, fst, originalByteLength, autoGrow, request, held, writer,
                    memTree, locked, tx >>

LockTimeoutNext ==
    \/ \E p \in Callers, r \in Requests : CallAdd(p, r)
    \/ \E p \in Callers : Locked(p)
    \/ \E p \in Callers : FoundLeaf(p)
    \/ \E p \in Callers : AddSettles(p)
    \/ \E p \in Callers : LockTimesOut(p)

LockTimeoutSpec == Init /\ [][LockTimeoutNext]_vars

\* the last call is an add that was refused the lock
LockRefused == history # << >> /\ "lockErr" \in DOMAIN last

\* C37: an add that is refused the lock of the tree id rejects with the
\* error of the lock, has read and written nothing of the tree, and has
\* released no lock: the caller it waited behind still has the lock
C37_LockErrorRejectsAdd ==
    LockRefused =>
        /\ last.err = last.lockErr
        /\ disk = LastCall.disk /\ fst = LastCall.fst
        /\ waiters # << >> /\ pc[Head(waiters)] \in { "lock", "findLeaf", "write" }

\* ---------------------------------------------------------------------
\* Trees whose last leaf holds one entry, as create lays them when the
\* entries do not fill the last leaf: one remove empties that leaf
\* ---------------------------------------------------------------------
ShortLeafs ==
    { << << E(KeyB, << RP1 >>), E(KeyD, << RP1 >>) >>, << E(KeyH, << RP1 >>) >> >>,
      << << E(KeyB, << RP1 >>), E(KeyD, << RP1 >>), E(KeyF, << RP1 >>) >>,
         << E(KeyH, << RP1, RP2 >>) >> >> }

EmptiedInit ==
    \E allocatedBytes \in InitAllocatedBytes, leafs \in ShortLeafs, fillFactor \in { InitFillFactor, 100 } :
        /\ disk = create(FALSE, MaxEntriesPerNode, fillFactor, allocatedBytes, leafs)
        /\ fst = << >>
        /\ originalByteLength = _readByteLength(disk, 0)
        /\ autoGrow \in BOOLEAN
        /\ last = Settled("none", KUndefined, << >>, [ err |-> NoError ], << >>, << >>, 0)
        /\ history = << >>
        /\ writer = << >>
        /\ locked = { }
        /\ tx = NewTX
        /\ memTree = BPlusTree(MaxEntriesPerNode, FALSE)
        /\ NoCallers
        /\ cache = NoCache

EmptiedNext ==
    \/ \E key \in Keys, recordPointer \in RecordPointers : Add(key, recordPointer)
    \/ \E key \in AllKeys, recordPointer \in { RP1, RP2 } : Remove(key, recordPointer)
    \/ \E key \in AllKeys : RemoveKey(key)

EmptiedSpec == EmptiedInit /\ [][EmptiedNext]_vars

\* a leaf of the tree has no entries
HasEmptyLeaf(data) ==
    \E i \in DOMAIN TreeLeaves(data) :
        TreeLeaves(data)[i].err = NoError /\ TreeLeaves(data)[i].entries = << >>

\* the first call was a remove that took the last entry of a leaf
EmptiedByRemove ==
    /\ calls > 0
    /\ history[1].call.op \in { "remove", "remove key" }
    /\ history[1].call.err = NoError
    /\ ~HasEmptyLeaf(history[1].disk)
    /\ HasEmptyLeaf(IF calls = 1 THEN disk ELSE history[2].disk)

\* the keys of the leaves of the tree
StoredKeys(data) ==
    { AllEntries(TreeLeaves(data))[i].key : i \in DOMAIN AllEntries(TreeLeaves(data)) }

\* the tree as the remove left it: the order of the keys, the pivots, the
\* chain of the leaves as getNext walks it, and the keys find gives
EmptiedTreeIsSound ==
    /\ \A i \in DOMAIN TreeLeaves(disk) : StrictlyIncreasing(TreeLeaves(disk)[i].entries)
    /\ pivotsHold(disk, _getReader(disk), _readChild(disk, _getReader(disk).headerLength),
                  FALSE, KUndefined, FALSE, KUndefined, MaxDescent)
    /\ \A i \in DOMAIN LeafChain(disk) : LeafChain(disk)[i].err = NoError
    /\ Indexes(LeafChain(disk)) = Indexes(TreeLeaves(disk))
    /\ DoublyLinked(LeafChain(disk))
    /\ \A key \in StoredKeys(disk) :
          find(disk, key).err = NoError /\ find(disk, key).found

\* C38: once a remove has emptied a leaf the invariants of the tree hold
\* and find gives every key that is left; and an add that follows and has
\* a leaf next to the empty one split or rebuilt resolves, the tree being
\* free to grow
C38_EmptiedLeafHarmless ==
    /\ (EmptiedByRemove /\ calls = 1) => EmptiedTreeIsSound
    /\ (EmptiedByRemove /\ calls = 2 /\ (SplitWithRoom \/ RebuildCalled)
          /\ autoGrow /\ LeafFound.entries # << >>)
            => last.err = NoError

\* ---------------------------------------------------------------------
\* BinaryWriter.forFunction(writeFn): append, write and end are called,
\* and the promises writeFn has returned settle one at a time
\* ---------------------------------------------------------------------
_maxSimultaniousWrites == 50

\* the calls of writeFn a writer may make, and the lengths of their data
MaxWrites == 3
ChunkLengths == { 1, 2 }

\* BinaryWriter.forFunction(writeFn): the variables of the closure, the
\* calls of writeFn made so far (by stream.write or by writer.write, with
\* their position and how their promise has settled), the promises append
\* has returned (the call of writeFn of each), and the promise of end()
forFunction ==
    [ _currentPosition |-> 0, _pendingWrites |-> 0, _drainCallbacks |-> << >>,
      _ended |-> FALSE, _written |-> 0,
      writes |-> << >>, appends |-> << >>, end |-> "not called" ]

WriteFnCall(via, position, length) ==
    [ via |-> via, position |-> position, length |-> length, state |-> "pending" ]

\* stream.write(data) and the rest of append(data): the promise of append
\* is resolved at once when stream.write gives ok, on 'drain' otherwise
appendTo(w, length) ==
    [w EXCEPT
        !._pendingWrites = @ + 1,
        !.writes = Append(@, WriteFnCall("append", w._currentPosition, length)),
        !._currentPosition = @ + length,
        !._written = @ + length,
        !._drainCallbacks = IF w._pendingWrites + 1 < _maxSimultaniousWrites THEN @
                            ELSE Append(@, Len(w.appends) + 1),
        !.appends = Append(@, [ write |-> Len(w.writes) + 1,
                                state |-> IF w._pendingWrites + 1 < _maxSimultaniousWrites
                                          THEN "resolved" ELSE "pending" ])]

\* writer.write(data, position): writeFn(data, position), whose promise
\* the caller is given
writeAt(w, length, position) ==
    [w EXCEPT !.writes = Append(@, WriteFnCall("write", position, length))]

\* `success` of stream.write: the end callback if the stream has ended and
\* this was the last pending write, then the first drain callback
success(w) ==
    [w EXCEPT
        !._pendingWrites = @ - 1,
        !.end = IF w._ended /\ w._pendingWrites - 1 = 0 THEN "resolved" ELSE @,
        !._drainCallbacks = IF @ = << >> THEN @ ELSE Tail(@),
        !.appends = IF w._drainCallbacks = << >> THEN @
                    ELSE [@ EXCEPT ![Head(w._drainCallbacks)].state = "resolved"]]

\* `fail` of stream.write: console.error, then success()
fail(w) == success(w)

\* the promise of the i-th call of writeFn settles
writeSettled(w, i, state) ==
    IF w.writes[i].via = "write" THEN [w EXCEPT !.writes[i].state = state]
    ELSE IF state = "resolved" THEN success([w EXCEPT !.writes[i].state = state])
    ELSE fail([w EXCEPT !.writes[i].state = state])

\* stream.end(callback) of end(): the callback resolves the promise of end
endOf(w) ==
    [w EXCEPT !._ended = TRUE,
              !.end = IF w._pendingWrites = 0 THEN "resolved" ELSE "pending"]

WriterInit ==
    /\ disk = create(FALSE, MaxEntriesPerNode, InitFillFactor, 0, PlainLeafs)
    /\ fst = << >>
    /\ originalByteLength = _readByteLength(disk, 0)
    /\ autoGrow = FALSE
    /\ last = Settled("none", KUndefined, << >>, [ err |-> NoError ], << >>, << >>, 0)
    /\ history = << >>
    /\ writer = forFunction
    /\ locked = { }
    /\ tx = NewTX
    /\ memTree = BPlusTree(MaxEntriesPerNode, FALSE)
    /\ NoCallers
    /\ cache = NoCache

WriterVars == << disk, fst, originalByteLength, autoGrow, last, history, pc, request, held,
                waiters, memTree, locked, tx, cache >>

\* writer.append(data)
WriterAppend(length) ==
    /\ Len(writer.writes) < MaxWrites
    /\ ~writer._ended
    /\ writer' = appendTo(writer, length)
    /\ UNCHANGED WriterVars

\* writer.write(data, position)
WriterWrite(length, position) ==
    /\ Len(writer.writes) < MaxWrites
    /\ writer' = writeAt(writer, length, position)
    /\ UNCHANGED WriterVars

\* writer.end()
WriterEnd ==
    /\ ~writer._ended
    /\ writer' = endOf(writer)
    /\ UNCHANGED WriterVars

\* the promise of a call of writeFn resolves
WriteResolves(i) ==
    /\ i \in DOMAIN writer.writes
    /\ writer.writes[i].state = "pending"
    /\ writer' = writeSettled(writer, i, "resolved")
    /\ UNCHANGED WriterVars

\* the promise of a call of writeFn rejects
WriteRejects(i) ==
    /\ i \in DOMAIN writer.writes
    /\ writer.writes[i].state = "pending"
    /\ writer' = writeSettled(writer, i, "rejected")
    /\ UNCHANGED WriterVars

WriterNext ==
    \/ \E length \in ChunkLengths : WriterAppend(length)
    \/ \E length \in ChunkLengths, position \in { 0, 1 } : WriterWrite(length, position)
    \/ WriterEnd
    \/ \E i \in 1..MaxWrites : WriteResolves(i)
    \/ \E i \in 1..MaxWrites : WriteRejects(i)

WriterSpec == WriterInit /\ [][WriterNext]_vars

\* the lengths of the data appended before the i-th call of writeFn
RECURSIVE AppendedBefore(_, _)
AppendedBefore(writes, i) ==
    IF i <= 1 THEN 0
    ELSE (IF writes[i - 1].via = "append" THEN writes[i - 1].length ELSE 0)
         + AppendedBefore(writes, i - 1)

\* C39: the promise of end() is settled only when every call of writeFn
\* made by append or write has settled; every chunk appended is written at
\* the sum of the lengths of the chunks appended before it; and when a
\* call of writeFn made by append has rejected, the promise of that append
\* or the promise of end() is rejected, never resolved
C39_WriterEndAfterWrites ==
    /\ writer.end \in { "resolved", "rejected" }
          => \A i \in DOMAIN writer.writes : writer.writes[i].state # "pending"
    /\ \A i \in DOMAIN writer.writes :
          writer.writes[i].via = "append"
              => writer.writes[i].position = AppendedBefore(writer.writes, i)
    /\ \A a \in DOMAIN writer.appends :
          (writer.writes[writer.appends[a].write].state = "rejected"
           /\ writer.end # "pending" /\ writer.end # "not called")
              => (writer.appends[a].state = "rejected" \/ writer.end = "rejected")

\* ---------------------------------------------------------------------
\* NodeCache: update and find are called as time passes, and the cleanup
\* timer fires at its time or later
\* ---------------------------------------------------------------------
CACHE_TIMEOUT == 60000
CACHE_DURATION == CACHE_TIMEOUT

\* the paths of the nodes, the milliseconds that pass between two calls,
\* and the time the clock is followed to
CachePaths == { "users", "users/ewout" }
TickLengths == { 20000, 30000 }
MaxTime == 80000

\* entry.keepAlive(): expires = (created || updated) + CACHE_DURATION.
\* `created` is set by the constructor and is never 0, so it is what counts
keepAlive(entry) == [entry EXCEPT !.expires = entry.created + CACHE_DURATION]

\* keepAlive counting from the time of the call
keepAliveFromNow(entry, now) == [entry EXCEPT !.expires = now + CACHE_DURATION]

\* new NodeCacheEntry(nodeInfo)
NodeCacheEntry(nodeInfo, now) ==
    keepAlive([ nodeInfo |-> nodeInfo, created |-> now, updated |-> 0, expires |-> 0 ])

\* entry.update(nodeInfo)
entryUpdate(entry, nodeInfo, now) ==
    keepAlive([entry EXCEPT !.nodeInfo = nodeInfo, !.updated = now])

\* this._cache.set(path, entry) and this._cache.delete(path)
cacheSet(entries, path, entry) ==
    [p \in DOMAIN entries \cup { path } |-> IF p = path THEN entry ELSE entries[p]]
cacheDelete(entries, path) == [p \in DOMAIN entries \ { path } |-> entries[p]]

\* _assertCleanupTimeout(): setTimeout(..., CACHE_TIMEOUT) if none is set
_assertCleanupTimeout(c) ==
    IF c._cleanupTimeout = NoTimer THEN [c EXCEPT !._cleanupTimeout = c.now + CACHE_TIMEOUT]
    ELSE c

\* NodeCache.update(nodeInfo, overwrite) for a path that is not the root
cacheUpdate(c, path, nodeInfo, overwrite) ==
    _assertCleanupTimeout(
        IF path \in DOMAIN c.entries
        THEN IF overwrite
             THEN [c EXCEPT !.entries[path] = entryUpdate(@, nodeInfo, c.now)]
             ELSE c
        ELSE [c EXCEPT !.entries = cacheSet(@, path, NodeCacheEntry(nodeInfo, c.now))])

\* NodeCache.cleanup()
cleanup(c) ==
    [c EXCEPT !.entries = [p \in { q \in DOMAIN c.entries : c.entries[q].expires > c.now }
                              |-> c.entries[p]]]

\* the callback of the cleanup timer
cleanupTimer(c) ==
    IF DOMAIN cleanup(c).entries # { }
    THEN _assertCleanupTimeout([cleanup(c) EXCEPT !._cleanupTimeout = NoTimer])
    ELSE [cleanup(c) EXCEPT !._cleanupTimeout = NoTimer]

\* NodeCache.find(path): the cache it leaves
cacheFind(c, path) ==
    _assertCleanupTimeout(
        IF path \notin DOMAIN c.entries THEN c
        ELSE IF c.entries[path].expires <= c.now
        THEN [c EXCEPT !.entries = cacheDelete(@, path)]
        ELSE [c EXCEPT !.entries[path] = keepAlive(@)])

\* NodeCache.find(path): whether it gives the node info of the entry
cacheFound(c, path) == path \in DOMAIN c.entries /\ c.entries[path].expires > c.now

CacheInit ==
    /\ disk = create(FALSE, MaxEntriesPerNode, InitFillFactor, 0, PlainLeafs)
    /\ fst = << >>
    /\ originalByteLength = _readByteLength(disk, 0)
    /\ autoGrow = FALSE
    /\ last = Settled("none", KUndefined, << >>, [ err |-> NoError ], << >>, << >>, 0)
    /\ history = << >>
    /\ writer = << >>
    /\ locked = { }
    /\ tx = NewTX
    /\ memTree = BPlusTree(MaxEntriesPerNode, FALSE)
    /\ NoCallers
    /\ cache = NoCache

CacheOthers == << disk, fst, originalByteLength, autoGrow, history, pc, request, held,
                 waiters, writer, memTree, locked, tx >>

\* what a call of the cache gave: for find, whether it gave the node info,
\* and when the entry it found was to expire
CacheCall(op, path, at, found, expires) ==
    [ op |-> op, key |-> KUndefined, path |-> path, err |-> NoError, at |-> at,
      found |-> found, expires |-> expires ]

\* nodeCache.update(nodeInfo, overwrite)
CacheUpdate(path, nodeInfo, overwrite) ==
    /\ cache.now <= MaxTime
    /\ cache' = cacheUpdate(cache, path, nodeInfo, overwrite)
    /\ last' = CacheCall("cache.update", path, cache.now, FALSE, 0)
    /\ UNCHANGED CacheOthers

\* nodeCache.find(path)
CacheFind(path) ==
    /\ cache.now <= MaxTime
    /\ cache' = cacheFind(cache, path)
    /\ last' = CacheCall("cache.find", path, cache.now, cacheFound(cache, path),
                         IF path \in DOMAIN cache.entries THEN cache.entries[path].expires
                         ELSE 0)
    /\ UNCHANGED CacheOthers

\* the cleanup timer fires, at its time or later
CleanupFires ==
    /\ cache._cleanupTimeout # NoTimer
    /\ cache.now >= cache._cleanupTimeout
    /\ cache' = cleanupTimer(cache)
    /\ UNCHANGED << last, CacheOthers >>

\* time passes
Tick(ms) ==
    /\ cache.now + ms <= MaxTime
    /\ cache' = [cache EXCEPT !.now = @ + ms]
    /\ UNCHANGED << last, CacheOthers >>

CacheNext ==
    \/ \E path \in CachePaths, nodeInfo \in { 1, 2 }, overwrite \in BOOLEAN :
          CacheUpdate(path, nodeInfo, overwrite)
    \/ \E path \in CachePaths : CacheFind(path)
    \/ CleanupFires
    \/ \E ms \in TickLengths : Tick(ms)

CacheSpec == CacheInit /\ [][CacheNext]_vars

\* the last call is a find that gave the node info of an entry
FoundCached == last.op = "cache.find" /\ last.found

\* C40: a find at time t that gives the node info of an entry leaves the
\* entry to expire no sooner than t + CACHE_DURATION (while it is cached it
\* expires then or later, and it is not taken out before); and find gives
\* no node info of an entry whose time of expiry has passed
C40_FindExtendsLifetime ==
    FoundCached =>
        /\ last.expires > last.at
        /\ IF last.path \in DOMAIN cache.entries
           THEN cache.entries[last.path].expires >= last.at + CACHE_DURATION
           ELSE cache.now >= last.at + CACHE_DURATION

====
